---- MODULE Spec2Model ----
(***************************************************************************)
(* Model of the wallet-flow analysis route (src/app/api/analyze/route.ts): *)
(* the retrying, rotating JSON-RPC call (rpcCall / getNextRpcEndpoint),    *)
(* the paginated history fetch (getSignatures), the per-wallet fold        *)
(* (analyzeWallet), the sequential batch loop of POST, and the Helius      *)
(* route (analyzeWalletHelius, processWalletsParallel and its POST).       *)
(*                                                                         *)
(* JavaScript runs one continuation at a time, so every action below is    *)
(* one continuation: the code between two awaits.                          *)
(***************************************************************************)
EXTENDS Integers, Naturals, Sequences, FiniteSets, TLC

VARIABLES
    currentRpcIndex,   \* route.ts:15, module-level, shared by every call
    calls,             \* the logical rpcCall invocations, one record each
    obs,               \* what the observed call has done so far
    rpc,               \* POST: the endpoint of the request (route.ts:304)
    scn,               \* the request and its world: history length, cap, events
    wal,               \* analyzeWallet / getSignatures: locals and position
    tally,             \* what the analysis has done so far
    post,              \* POST: the request, its position, results and response
    hel,               \* processWalletsParallel: the analyses of the batch
    iso,               \* two executions of one batch loop, with and without a wallet
    net,               \* what each endpoint answers, when that is fixed
    twice,             \* one batch loop executed twice in one process
    fold               \* the fold of analyzeWallet over a list and a permutation

callVars == <<calls, obs>>
walletVars == <<rpc, scn, wal, tally>>
serviceVars == <<post, hel, iso>>
replayVars == <<net, twice, fold>>
vars == <<currentRpcIndex, calls, obs, rpc, scn, wal, tally, post, hel, iso, net, twice, fold>>

----------------------------------------------------------------------------
(* Program constants *)

MAX_RETRIES == 3
BASE_DELAY_MS == 1000
REQUEST_DELAY_MS == 150

\* The largest page getSignatures asks for (route.ts:154) and the number of
\* references analyzeWallet resolves at most (route.ts:214).
PAGE_LIMIT == 1000
DETAIL_CAP == 100

\* The two entries of PUBLIC_RPC_ENDPOINTS, by a short name; DEFAULT_RPC is
\* the first of them.
DEFAULT_RPC == "helius"
PUBLIC_RPC_ENDPOINTS == <<DEFAULT_RPC, "solana">>

\* A URL that is not in the pool stands for every such URL: the code only
\* tests membership (route.ts:50) and equality (route.ts:59).
CustomUrl == "custom"
Urls == {PUBLIC_RPC_ENDPOINTS[k] : k \in 1..Len(PUBLIC_RPC_ENDPOINTS)} \cup {CustomUrl}
PoolUrls == {PUBLIC_RPC_ENDPOINTS[k] : k \in 1..Len(PUBLIC_RPC_ENDPOINTS)}

None == "none"

----------------------------------------------------------------------------
(* The logical calls of the call layer: two, which may be in flight        *)
(* together (two requests served by one process) or one after the other.   *)

CallIds == {"a", "b"}

\* The properties follow one of the two calls; the other one runs the same
\* code and is there for what it does to currentRpcIndex.
Observed == "a"

----------------------------------------------------------------------------
(* Bounds of the wallet layer *)

SmallHist == 3     \* histories of 0..SmallHist references, with
SmallCap == 3      \* caps (maxTransactions) of 0..SmallCap, and at most
MaxEvents == 4     \* MaxEvents answers that are not the plain one
BigHist == 150     \* the scenario of the spec: 150 references,
BigCap == 100      \* a cap of 100,
BigEvents == 1     \* and at most BigEvents answers that are not plain
Epoch == 5000      \* blockTime of reference j is Epoch - j

----------------------------------------------------------------------------
(* What one fetch can answer *)

\* fetch either rejects with a TypeError (network error) or resolves with an
\* HTTP status.
Statuses == {200, 429, 500, 503, 401, 403, 400, 404}
Responses == [threw : {FALSE}, status : Statuses] \cup {[threw |-> TRUE, status |-> 0]}

ResponseOk(r) == r.status >= 200 /\ r.status <= 299

\* The failure class of a response, by the tests of rpcCall.
FailureClass(r) ==
    IF r.threw THEN "network"
    ELSE IF r.status = 429 THEN "rate"
    ELSE IF ResponseOk(r) THEN None
    ELSE IF r.status >= 500 \/ r.status = 403 \/ r.status = 401 THEN "server"
    ELSE "generic"

----------------------------------------------------------------------------
(* getNextRpcEndpoint *)

\* Mutant: the index is advanced only when an endpoint is handed out.
GetNextRpcEndpointKeepsOnNull(currentUrl, idx) ==
    IF currentUrl \notin PoolUrls
    THEN [next |-> None, idx |-> idx]
    ELSE LET i2 == (idx + 1) % Len(PUBLIC_RPC_ENDPOINTS)
             nextEndpoint == PUBLIC_RPC_ENDPOINTS[i2 + 1]
         IN  IF nextEndpoint = currentUrl
             THEN [next |-> None, idx |-> idx]
             ELSE [next |-> nextEndpoint, idx |-> i2]

GetNextRpcEndpoint(currentUrl, idx) ==
    IF currentUrl \notin PoolUrls
    THEN [next |-> None, idx |-> idx]
    ELSE LET i2 == (idx + 1) % Len(PUBLIC_RPC_ENDPOINTS)
             nextEndpoint == PUBLIC_RPC_ENDPOINTS[i2 + 1]
         IN  [next |-> IF nextEndpoint = currentUrl THEN None ELSE nextEndpoint,
              idx  |-> i2]

----------------------------------------------------------------------------
(* rpcCall: what one attempt does with the answer of its fetch.            *)
(* c is [url, retryCount, endpointsTried]; the result says whether the     *)
(* call returns, throws or recurses (after a delay of `wait` ms).          *)

Attempt(kind, url, retryCount, endpointsTried, idx, wait, err) ==
    [kind |-> kind, url |-> url, retryCount |-> retryCount,
     endpointsTried |-> endpointsTried, idx |-> idx, wait |-> wait, err |-> err]

\* Mutant: a linear schedule instead of the exponential one.
BackoffDelayLinear(retryCount) == BASE_DELAY_MS * (retryCount + 1)

BackoffDelay(retryCount) == BASE_DELAY_MS * (2 ^ retryCount)

\* Mutant: rotation that forgets how many endpoints the call has tried.
CanRotateUncounted(g, c) == g.next # None

CanRotate(g, c) == g.next # None /\ c.endpointsTried < Len(PUBLIC_RPC_ENDPOINTS)

\* route.ts:86-104
OnRateLimited(c, idx) ==
    LET g == GetNextRpcEndpoint(c.url, idx) IN
    IF CanRotate(g, c)
    THEN Attempt("retry", g.next, 0, c.endpointsTried + 1, g.idx, BASE_DELAY_MS, None)
    ELSE IF c.retryCount >= MAX_RETRIES
    THEN Attempt("throw", c.url, c.retryCount, c.endpointsTried, g.idx, 0,
                 "Rate limit exceeded")
    ELSE Attempt("retry", c.url, c.retryCount + 1, c.endpointsTried, g.idx,
                 BackoffDelay(c.retryCount), None)

\* Mutant: a server error that cannot rotate backs off like a rate limit.
OnServerErrorBacksOff(c, idx) ==
    LET g == GetNextRpcEndpoint(c.url, idx) IN
    IF CanRotate(g, c)
    THEN Attempt("retry", g.next, 0, c.endpointsTried + 1, g.idx, REQUEST_DELAY_MS, None)
    ELSE IF c.retryCount >= MAX_RETRIES
    THEN Attempt("throw", c.url, c.retryCount, c.endpointsTried, g.idx, 0,
                 "RPC request failed")
    ELSE Attempt("retry", c.url, c.retryCount + 1, c.endpointsTried, g.idx,
                 BackoffDelay(c.retryCount), None)

\* route.ts:106-117, status >= 500, 403 or 401
OnServerError(c, idx) ==
    LET g == GetNextRpcEndpoint(c.url, idx) IN
    IF CanRotate(g, c)
    THEN Attempt("retry", g.next, 0, c.endpointsTried + 1, g.idx, REQUEST_DELAY_MS, None)
    ELSE Attempt("throw", c.url, c.retryCount, c.endpointsTried, g.idx, 0,
                 "RPC request failed")

\* Mutant: any status that is not ok is treated as an endpoint failure.
OnGenericFailureRotates(c, idx) ==
    LET g == GetNextRpcEndpoint(c.url, idx) IN
    IF CanRotate(g, c)
    THEN Attempt("retry", g.next, 0, c.endpointsTried + 1, g.idx, REQUEST_DELAY_MS, None)
    ELSE Attempt("throw", c.url, c.retryCount, c.endpointsTried, g.idx, 0,
                 "RPC request failed")

\* route.ts:106, 116: any other status that is not ok
OnGenericFailure(c, idx) ==
    Attempt("throw", c.url, c.retryCount, c.endpointsTried, idx, 0, "RPC request failed")

\* route.ts:120-137, fetch rejected with a TypeError
OnNetworkError(c, idx) ==
    LET g == GetNextRpcEndpoint(c.url, idx) IN
    IF CanRotate(g, c)
    THEN Attempt("retry", g.next, 0, c.endpointsTried + 1, g.idx, REQUEST_DELAY_MS, None)
    ELSE IF c.retryCount < MAX_RETRIES
    THEN Attempt("retry", c.url, c.retryCount + 1, c.endpointsTried, g.idx,
                 BackoffDelay(c.retryCount), None)
    ELSE Attempt("throw", c.url, c.retryCount, c.endpointsTried, g.idx, 0, "TypeError")

RpcAttempt(c, r, idx) ==
    IF r.threw THEN OnNetworkError(c, idx)
    ELSE IF r.status = 429 THEN OnRateLimited(c, idx)
    ELSE IF ~ResponseOk(r)
    THEN IF r.status >= 500 \/ r.status = 403 \/ r.status = 401
         THEN OnServerError(c, idx)
         ELSE OnGenericFailure(c, idx)
    ELSE Attempt("return", c.url, c.retryCount, c.endpointsTried, idx, 0, None)

----------------------------------------------------------------------------
(* One logical call: the arguments of the rpcCall frame that is running    *)
(* (rpcUrl, retryCount, endpointsTried) and where it stands.               *)

IdleCall == [pc |-> "idle", url |-> None, retryCount |-> 0, endpointsTried |-> 1]

\* Mutant: a call on a pool endpoint starts where the rotation stands.
NewCallWhereIndexStands(u) ==
    [pc |-> "fetch",
     url |-> IF u \in PoolUrls THEN PUBLIC_RPC_ENDPOINTS[currentRpcIndex + 1] ELSE u,
     retryCount |-> 0, endpointsTried |-> 1]

\* rpcCall(rpc, method, params): retryCount = 0, endpointsTried = 1, and the
\* first fetch is issued.
NewCall(u) == [pc |-> "fetch", url |-> u, retryCount |-> 0, endpointsTried |-> 1]

\* The call record after the continuation that handles response r.
AfterResponse(call, r, idx) ==
    LET a == RpcAttempt(call, r, idx) IN
    [pc |-> IF a.kind = "retry" THEN "delay"
            ELSE IF a.kind = "return" THEN "ok" ELSE "failed",
     url |-> a.url,
     retryCount |-> a.retryCount,
     endpointsTried |-> a.endpointsTried]

\* The delay is over: the recursive rpcCall issues its fetch.
AfterDelay(call) == [call EXCEPT !.pc = "fetch"]

----------------------------------------------------------------------------
(* What the observed call has done: where it started and whether the       *)
(* caller supplied that URL, the fetches it issued per endpoint, the       *)
(* classes of failure it met and the time it spent in delay().             *)

NoAttempts == [u \in Urls |-> 0]

NoObs == [supplied |-> FALSE, start |-> None, attempts |-> NoAttempts,
          cls |-> None, waited |-> 0]

\* The classes of failure a logical call has met: none, one class, or a mix;
\* "transient" is a mix of rate limits and network errors only.
JoinClass(old, new) ==
    IF new = None THEN old
    ELSE IF old = None \/ old = new THEN new
    ELSE IF {old, new} \subseteq {"rate", "network", "transient"} THEN "transient"
    ELSE "mixed"

ObsStart(supplied, u) ==
    [NoObs EXCEPT !.supplied = supplied, !.start = u,
                  !.attempts = [NoAttempts EXCEPT ![u] = 1]]

ObsResponse(o, call, r, idx) ==
    [o EXCEPT !.cls = JoinClass(o.cls, FailureClass(r)),
              !.waited = o.waited + RpcAttempt(call, r, idx).wait]

ObsFetch(o, u) == [o EXCEPT !.attempts = [o.attempts EXCEPT ![u] = @ + 1]]

TotalAttempts(o) ==
    o.attempts[PUBLIC_RPC_ENDPOINTS[1]] + o.attempts[PUBLIC_RPC_ENDPOINTS[2]]
        + o.attempts[CustomUrl]

----------------------------------------------------------------------------
(* A logical call run alone, from its first fetch to its return or throw,  *)
(* against endpoints that answer every fetch the same way.                 *)

\* rpcCall recursing by itself: the result is "return" or "throw".  The
\* recursion ends: every retry raises retryCount or endpointsTried, and
\* both are bounded (only an endpoint that answers 200 returns).
RECURSIVE RunAlone(_, _, _)
RunAlone(call, idx, world) ==
    LET a == RpcAttempt(call, world[call.url], idx) IN
    IF a.kind # "retry" THEN a.kind
    ELSE RunAlone([call EXCEPT !.url = a.url, !.retryCount = a.retryCount,
                               !.endpointsTried = a.endpointsTried],
                  a.idx, world)

----------------------------------------------------------------------------
(* The wallet layer: getSignatures, getTransaction and analyzeWallet.      *)
(*                                                                         *)
(* The history of a wallet is the references 1..hist, newest first; a      *)
(* reference is named by its position.  A page of getSignaturesForAddress  *)
(* is a run of positions, and allSignatures is kept as the sequence of     *)
(* the runs pushed (adjacent runs joined).                                 *)

Min(a, b) == IF a <= b THEN a ELSE b

\* `blockTime || null`: an absent blockTime and blockTime 0 both give null.
NullTime == 0

\* blockTime of the reference at position j: older references are earlier.
BlockTime(j) == Epoch - j

\* The walletAddress analyzeWallet was called with.
WalletAddress == post.wallet

RECURSIVE SigCount(_)
SigCount(sigs) ==
    IF sigs = <<>> THEN 0
    ELSE (Head(sigs).hi - Head(sigs).lo + 1) + SigCount(Tail(sigs))

\* allSignatures[k - 1]: the position of the k-th reference collected.
RECURSIVE SigAt(_, _)
SigAt(sigs, k) ==
    LET n == Head(sigs).hi - Head(sigs).lo + 1 IN
    IF k <= n THEN Head(sigs).lo + k - 1 ELSE SigAt(Tail(sigs), k - n)

\* allSignatures.push(...signatures) for the page lo .. lo + k - 1
PushPage(sigs, lo, k) ==
    IF k = 0 THEN sigs
    ELSE IF sigs # <<>> /\ sigs[Len(sigs)].hi + 1 = lo
    THEN [sigs EXCEPT ![Len(sigs)].hi = lo + k - 1]
    ELSE Append(sigs, [lo |-> lo, hi |-> lo + k - 1])

NoFlow ==
    [address |-> None, totalInflow |-> 0, totalOutflow |-> 0, netFlow |-> 0,
     transactionCount |-> 0, firstTxTime |-> NullTime, lastTxTime |-> NullTime,
     error |-> None]

\* Amounts are kept in lamports; the code divides each total by
\* LAMPORTS_PER_SOL when it builds the WalletFlow.
EmptyFlow(address) == [NoFlow EXCEPT !.address = address]

ErrorFlow(address, message) == [NoFlow EXCEPT !.address = address, !.error = message]

IdleWallet ==
    [pc |-> "pending", sigs |-> <<>>, before |-> 0, i |-> 0, processed |-> 0,
     totalInflow |-> 0, totalOutflow |-> 0,
     firstTxTime |-> NullTime, lastTxTime |-> NullTime, flow |-> NoFlow]

\* Mutant: every page asks for the largest page, whatever is still missing.
PageRequestWholePage(w, limit) == [limit |-> PAGE_LIMIT, before |-> w.before]

\* route.ts:152-158: the parameters of the next page request; before = 0 is
\* `undefined`, the first page.
PageRequest(w, limit) ==
    [limit |-> Min(PAGE_LIMIT, limit - SigCount(w.sigs)), before |-> w.before]

\* The provider: the entries of the history after the cursor, at most
\* `limit` of them.
PageFull(hist, params) ==
    LET available == hist - params.before IN
    IF available <= 0 \/ params.limit <= 0 THEN 0 ELSE Min(params.limit, available)

\* A provider may also answer with fewer entries than it could.
ShortSizes(full) == {k \in {1, full - 1} : 0 < k /\ k < full}

\* Mutant: the pagination also stops at a page shorter than the page asked.
AfterPageStopsWhenShort(w, lo, k, limit) ==
    IF k = 0 THEN [w EXCEPT !.pc = "history"]
    ELSE LET w2 == [w EXCEPT !.sigs = PushPage(w.sigs, lo, k), !.before = lo + k - 1] IN
         IF SigCount(w2.sigs) < limit /\ k >= PageRequest(w, limit).limit
         THEN [w2 EXCEPT !.pc = "sigs_delay"]
         ELSE [w2 EXCEPT !.pc = "history"]

\* Mutant: the cursor is not moved to the end of the page that arrived.
AfterPageKeepsCursor(w, lo, k, limit) ==
    IF k = 0 THEN [w EXCEPT !.pc = "history"]
    ELSE LET w2 == [w EXCEPT !.sigs = PushPage(w.sigs, lo, k)] IN
         IF SigCount(w2.sigs) < limit
         THEN [w2 EXCEPT !.pc = "sigs_delay"]
         ELSE [w2 EXCEPT !.pc = "history"]

\* route.ts:166-171 and the loop test of 145: the page lo .. lo + k - 1 has
\* arrived.  pc = "history" says getSignatures has returned.
AfterPage(w, lo, k, limit) ==
    IF k = 0 THEN [w EXCEPT !.pc = "history"]
    ELSE LET w2 == [w EXCEPT !.sigs = PushPage(w.sigs, lo, k), !.before = lo + k - 1] IN
         IF SigCount(w2.sigs) < limit
         THEN [w2 EXCEPT !.pc = "sigs_delay"]
         ELSE [w2 EXCEPT !.pc = "history"]

\* route.ts:214: txsToProcess.length
\* Mutant: every reference fetched is processed.
TxsToProcessAllFetched(w, cap) == SigCount(w.sigs)

TxsToProcess(w, cap) == Min(SigCount(w.sigs), Min(cap, DETAIL_CAP))

\* route.ts:258-269
FinalFlow(w, address) ==
    [address |-> address,
     totalInflow |-> w.totalInflow,
     totalOutflow |-> w.totalOutflow,
     netFlow |-> w.totalInflow - w.totalOutflow,
     transactionCount |-> w.processed,
     firstTxTime |-> w.firstTxTime,
     lastTxTime |-> w.lastTxTime,
     error |-> None]

Finish(w, address) == [w EXCEPT !.pc = "done", !.flow = FinalFlow(w, address)]

\* route.ts:270-281: the catch of analyzeWallet
Fail(w, address, message) == [w EXCEPT !.pc = "done", !.flow = ErrorFlow(address, message)]

\* Mutant: a failed page request ends the pagination with what was collected.
PageFailureKeepsPages(w, address, message) == [w EXCEPT !.pc = "history"]

\* route.ts:160-164: rpcCall threw, or the page payload carries a JSON-RPC
\* error; getSignatures throws and the catch of analyzeWallet answers.
PageFailure(w, address, message) == Fail(w, address, message)

\* Mutant: a detail call that threw is passed over and the loop goes on.
DetailFailureGoesOn(w, address, message) == [w EXCEPT !.i = w.i + 1, !.pc = "loop"]

\* route.ts:177, 225: rpcCall threw inside getTransaction; neither
\* getTransaction nor the loop catches, the catch of analyzeWallet answers.
DetailFailure(w, address, message) == Fail(w, address, message)

\* Mutant: the loop does not pass over the references marked err.
LoopResolvesFailed(w, cap, skips, address) ==
    LET j == w.i IN
    IF j >= TxsToProcess(w, cap) THEN Finish([w EXCEPT !.i = j], address)
    ELSE IF j > 0 THEN [w EXCEPT !.i = j, !.pc = "txs_delay"]
    ELSE [w EXCEPT !.i = j, !.pc = "txs"]

\* Mutant: a transaction record without meta is counted like any other.
AfterDetailCountsAll(w, tx) ==
    IF tx.kind = "null" THEN [w EXCEPT !.i = w.i + 1, !.pc = "loop"]
    ELSE [w EXCEPT !.i = w.i + 1, !.pc = "loop", !.processed = w.processed + 1]

\* route.ts:216-226: the for loop runs on from w.i over `skips` references
\* marked err, then stands at a reference to resolve (after a delay unless it
\* is the first) or at the end of txsToProcess.
Loop(w, cap, skips, address) ==
    LET j == w.i + skips IN
    IF j >= TxsToProcess(w, cap) THEN Finish([w EXCEPT !.i = j], address)
    ELSE IF j > 0 THEN [w EXCEPT !.i = j, !.pc = "txs_delay"]
    ELSE [w EXCEPT !.i = j, !.pc = "txs"]

\* Mutant: the two times are taken from the wrong ends of the list.
AnalyzeHistorySwapsTimes(w, address, tOldest, tNewest) ==
    IF SigCount(w.sigs) = 0
    THEN [w EXCEPT !.pc = "done", !.flow = EmptyFlow(address)]
    ELSE [w EXCEPT !.pc = "loop", !.i = 0, !.processed = 0,
                   !.totalInflow = 0, !.totalOutflow = 0,
                   !.firstTxTime = tNewest, !.lastTxTime = tOldest]

\* route.ts:192-214: getSignatures has returned; tOldest and tNewest are the
\* blockTime values of the last and the first reference.
AnalyzeHistory(w, address, tOldest, tNewest) ==
    IF SigCount(w.sigs) = 0
    THEN [w EXCEPT !.pc = "done", !.flow = EmptyFlow(address)]
    ELSE [w EXCEPT !.pc = "loop", !.i = 0, !.processed = 0,
                   !.totalInflow = 0, !.totalOutflow = 0,
                   !.firstTxTime = tOldest, !.lastTxTime = tNewest]

\* What a detail payload can hold: a JSON-RPC error, no transaction, a
\* transaction without meta, one whose accountKeys lack the wallet, or one
\* with the wallet's balance delta (postBalances - preBalances).
Deltas == {0 - 2, 0 - 1, 0, 1, 2}
DetailPayloads ==
    [kind : {"error", "null", "nometa", "absent"}, diff : {0}]
        \cup [kind : {"delta"}, diff : Deltas]

\* route.ts:176-184: getTransaction maps a JSON-RPC error to null.
GetTransaction(payload) ==
    IF payload.kind = "error" THEN [kind |-> "null", diff |-> 0] ELSE payload

\* Mutant: a total that grows faster the later a delta is folded.
AfterDetailWeighsOrder(w, tx) ==
    IF tx.kind \in {"null", "nometa"} THEN [w EXCEPT !.i = w.i + 1, !.pc = "loop"]
    ELSE IF tx.kind = "absent"
    THEN [w EXCEPT !.i = w.i + 1, !.pc = "loop", !.processed = w.processed + 1]
    ELSE IF tx.diff > 0
    THEN [w EXCEPT !.i = w.i + 1, !.pc = "loop", !.processed = w.processed + 1,
                   !.totalInflow = w.totalInflow + tx.diff * (w.processed + 1)]
    ELSE [w EXCEPT !.i = w.i + 1, !.pc = "loop", !.processed = w.processed + 1,
                   !.totalOutflow = w.totalOutflow + (0 - tx.diff)]

\* route.ts:225-255: the body of the loop once getTransaction has returned tx.
AfterDetail(w, tx) ==
    IF tx.kind \in {"null", "nometa"} THEN [w EXCEPT !.i = w.i + 1, !.pc = "loop"]
    ELSE IF tx.kind = "absent"
    THEN [w EXCEPT !.i = w.i + 1, !.pc = "loop", !.processed = w.processed + 1]
    ELSE IF tx.diff > 0
    THEN [w EXCEPT !.i = w.i + 1, !.pc = "loop", !.processed = w.processed + 1,
                   !.totalInflow = w.totalInflow + tx.diff]
    ELSE [w EXCEPT !.i = w.i + 1, !.pc = "loop", !.processed = w.processed + 1,
                   !.totalOutflow = w.totalOutflow + (0 - tx.diff)]

----------------------------------------------------------------------------
(* The request and its world, and what the analysis has done so far *)

\* hist references in the history, maxTransactions = cap, and at most
\* `events` answers of the world that are not the plain one (an HTTP 200 with
\* as many entries as asked and available, a reference not marked err with a
\* blockTime, a transaction that leaves the balance of the wallet unchanged).
Scenario(hist, cap, events) == [hist |-> hist, cap |-> cap, events |-> events]

QuietScenario == Scenario(0, 1, 0)

SmallScenarios == {Scenario(h, c, MaxEvents) : h \in 0..SmallHist, c \in 0..SmallCap}

BigScenarios ==
    {Scenario(BigHist, BigCap, BigEvents),
     Scenario(BigHist, BigHist, BigEvents),
     Scenario(PAGE_LIMIT + 2, PAGE_LIMIT + 1, BigEvents)}

Scenarios == SmallScenarios \cup BigScenarios

NoTally ==
    [events |-> 0,          \* answers that were not the plain one
     pageRequests |-> 0,    \* getSignaturesForAddress calls issued
     reqLimit |-> 0,        \* limit and before of the page request issued last
     reqBefore |-> 0,
     pages |-> 0,           \* pages that have arrived
     lastPage |-> 0,        \* entries of the page that arrived last
     lazyPages |-> 0,       \* pages shorter than the provider could answer
     afterShort |-> 0,      \* page requests issued after a page shorter than asked
     afterEmpty |-> 0,      \* page requests issued after an empty page
     shortSeen |-> FALSE,
     emptySeen |-> FALSE,
     detailCalls |-> 0,     \* getTransaction calls issued
     errSkipped |-> 0,      \* references skipped because marked err
     errFetched |-> FALSE,  \* the loop went on to resolve a reference marked err
     unresolved |-> 0,      \* detail calls that returned no transaction with meta
     rpcErrors |-> 0,       \* detail calls answered by a JSON-RPC error
     histFailed |-> FALSE,  \* a page request failed for good
     detailThrew |-> FALSE] \* the rpcCall of a detail call threw

----------------------------------------------------------------------------
(* The batch layer: POST of the RPC route (route.ts:284-339) and of the    *)
(* Helius route (route.ts:511-552) with processWalletsParallel and         *)
(* analyzeWalletHelius.                                                    *)

MAX_WALLETS == 10000
PARALLEL_WALLETS == 2
HELIUS_RETRIES == 3
HELIUS_BACKOFF_MS == 1000
DEFAULT_MAX_TRANSACTIONS == 100

\* Bounds of the batch layer
MaxWallets == PARALLEL_WALLETS + 1   \* accepted batches fill up to two chunks,
BatchHist == 2        \* each with no history or one of BatchHist references,
BatchEvents == 2      \* and at most BatchEvents answers that are not plain
MaxTxs == 2           \* a Helius answer lists at most MaxTxs transactions
PriceUsd == 150       \* the price CoinGecko quotes

\* The addresses of a batch, by position: the code never looks into an
\* address, it only passes it on and compares it.
AddressNames == <<"A", "B", "C", "D", "E", "F">>
Batch(n) == [k \in 1..n |-> AddressNames[k]]

\* The JSON value of `maxTransactions` in the body: absent, a number, or a
\* value that is no number (a string of letters, an object).
CapValue(kind, n) == [kind |-> kind, n |-> n]
Absent == CapValue("absent", 0)
Num(n) == CapValue("number", n)
NotANumber == CapValue("other", 0)

\* Caps that are no count of transactions: zero, negative, no number.
MalformedCaps == {Num(0), Num(0 - 1), NotANumber}

\* The JSON body of the request.  wallets is missing (or another falsy
\* value), a value that is not an array, or an array of addresses.
Body(kind, items, rpcUrl, maxTransactions) ==
    [kind |-> kind, items |-> items, rpcUrl |-> rpcUrl, maxTransactions |-> maxTransactions]

Oversized == [k \in 1..(MAX_WALLETS + 1) |-> "A"]

WalletLists == {Batch(n) : n \in 0..MaxWallets} \cup {Oversized}

Bodies ==
    {Body("array", items, u, m) :
        items \in WalletLists, u \in {None, PUBLIC_RPC_ENDPOINTS[2]}, m \in {Absent, Num(1)}}
    \cup {Body("array", items, None, m) : items \in WalletLists, m \in MalformedCaps}
    \cup {Body(k, <<>>, None, Absent) : k \in {"missing", "notArray"}}

\* route.ts:287: `maxTransactions = 100` in the destructuring
MaxTransactionsOf(body) ==
    IF body.maxTransactions = Absent THEN Num(DEFAULT_MAX_TRANSACTIONS) ELSE body.maxTransactions

\* The limit as the tests of getSignatures see it (route.ts:145, 154): a
\* value that is no number converts to NaN, against which every `<` is
\* false, as `0 < 0` is; getSignatures then returns [] and analyzeWallet
\* returns at route.ts:194 before the value is used again.
LimitOf(v) == IF v.kind = "number" THEN v.n ELSE 0

\* Mutant: the size of the batch is not checked.
ValidateAnySize(body) ==
    IF body.kind # "array" \/ Len(body.items) = 0
    THEN [ok |-> FALSE, status |-> 400, error |-> "Please provide an array of wallet addresses"]
    ELSE [ok |-> TRUE, status |-> 200, error |-> None]

\* route.ts:289-301 and 516-528
Validate(body) ==
    IF body.kind # "array" \/ Len(body.items) = 0
    THEN [ok |-> FALSE, status |-> 400, error |-> "Please provide an array of wallet addresses"]
    ELSE IF Len(body.items) > MAX_WALLETS
    THEN [ok |-> FALSE, status |-> 400, error |-> "Maximum 10,000 wallets per request"]
    ELSE [ok |-> TRUE, status |-> 200, error |-> None]

\* route.ts:304
ChooseRpc(rpcUrl, env) ==
    IF rpcUrl # None THEN rpcUrl ELSE IF env # None THEN env ELSE DEFAULT_RPC

\* getSolPrice, route.ts:29-41: everything but a quoted price gives 0.
PriceOutcomes == {"quoted", "notOk", "threw", "noQuote"}
GetSolPrice(outcome) == IF outcome = "quoted" THEN PriceUsd ELSE 0

RECURSIVE SumField(_, _)
SumField(results, f) ==
    IF results = <<>> THEN 0 ELSE Head(results)[f] + SumField(Tail(results), f)

NoAggregate ==
    [totalWallets |-> 0, totalInflow |-> 0, totalOutflow |-> 0, netFlow |-> 0,
     totalTransactions |-> 0, errors |-> 0]

\* Mutant: the wallets with an error are left out of totalWallets.
AggregateWithoutErrors(results) ==
    [totalWallets |-> Cardinality({k \in 1..Len(results) : results[k].error = None}),
     totalInflow |-> SumField(results, "totalInflow"),
     totalOutflow |-> SumField(results, "totalOutflow"),
     netFlow |-> SumField(results, "netFlow"),
     totalTransactions |-> SumField(results, "transactionCount"),
     errors |-> Cardinality({k \in 1..Len(results) : results[k].error # None})]

\* route.ts:323-330 and 536-543
Aggregate(results) ==
    [totalWallets |-> Len(results),
     totalInflow |-> SumField(results, "totalInflow"),
     totalOutflow |-> SumField(results, "totalOutflow"),
     netFlow |-> SumField(results, "netFlow"),
     totalTransactions |-> SumField(results, "transactionCount"),
     errors |-> Cardinality({k \in 1..Len(results) : results[k].error # None})]

NoResponse ==
    [status |-> 0, error |-> None, results |-> <<>>, aggregate |-> NoAggregate, solPrice |-> 0]

ErrorResponse(status, message) == [NoResponse EXCEPT !.status = status, !.error = message]

\* Mutant: a batch without a price is answered as a failure.
OkResponseNeedsPrice(results, solPrice) ==
    IF solPrice = 0 THEN ErrorResponse(500, "Internal server error")
    ELSE [status |-> 200, error |-> None, results |-> results,
          aggregate |-> Aggregate(results), solPrice |-> solPrice]

\* route.ts:332 and 545
OkResponse(results, solPrice) ==
    [status |-> 200, error |-> None, results |-> results,
     aggregate |-> Aggregate(results), solPrice |-> solPrice]

\* getSolPrice: where the lookup stands, the price it returned and the
\* number of lookups issued for the request.
IdlePrice == [pc |-> "idle", value |-> 0, lookups |-> 0]

\* route.ts:307 and 533: getSolPrice() is called.
StartPrice(price) == [price EXCEPT !.pc = "fetching", !.lookups = @ + 1]

\* The lookup is over.
EndPrice(price, outcome) ==
    [price EXCEPT !.pc = "done", !.value = GetSolPrice(outcome)]

\* No request: analyzeWallet stands alone, called for one address.
IdlePost ==
    [route |-> "rpc", pc |-> "idle", body |-> Body("missing", <<>>, None, Absent),
     env |-> None, i |-> 0, wallet |-> "W", results |-> <<>>, events |-> 0,
     price |-> IdlePrice, response |-> NoResponse]

\* A request has arrived at the route; request.json() is pending.
Request(route, body, env, events) ==
    [IdlePost EXCEPT !.route = route, !.pc = "received", !.body = body,
                     !.env = env, !.events = events, !.wallet = None]

(* The batch loop of the RPC route run twice (route.ts:311-318), once over  *)
(* a list of wallets that holds a wallet whose every call fails, once over *)
(* the same list without it.  Each execution is a process of its own, with *)
(* its own currentRpcIndex; as long as the two stand at the same point of  *)
(* the same wallet they are given the same answers.                        *)

\* The wallet whose pipeline always fails.
BadWallet == "X"

\* Bounds of the two executions
IsoHist == 1          \* every other wallet has a history of 0..IsoHist references
IsoCap == 1           \* maxTransactions of the batch

IsoLists == {<<BadWallet, "A">>, <<"A", BadWallet, "B">>}

RECURSIVE Without(_, _)
Without(list, x) ==
    IF list = <<>> THEN <<>>
    ELSE IF Head(list) = x THEN Without(Tail(list), x)
    ELSE <<Head(list)>> \o Without(Tail(list), x)

\* One execution of the loop: its currentRpcIndex, its rpcCall, the locals
\* of analyzeWallet, the number of wallets done and their flows.
IsoRun(idx) ==
    [idx |-> idx, c |-> IdleCall, w |-> [IdleWallet EXCEPT !.pc = "collected"],
     i |-> 0, results |-> <<>>]

IdleIso ==
    [list |-> <<>>, rpc |-> DEFAULT_RPC, hist |-> 0,
     with |-> IsoRun(0), without |-> IsoRun(0)]

\* What the world answers to one fetch: the response, and the payload of a
\* 200 (for a page request only whether it is a JSON-RPC error counts; the
\* provider answers pages in full).
IsoInput(r, payload) == [r |-> r, payload |-> payload]
IsoInputs ==
    {IsoInput(r, [kind |-> "delta", diff |-> 0]) : r \in {q \in Responses : ~ResponseOk(q)}}
    \cup {IsoInput(r, payload) : r \in {q \in Responses : ResponseOk(q)},
                                 payload \in DetailPayloads}

\* The answers to the calls of the wallet that always fails.
IsoBadInputs == {x \in IsoInputs : ~ResponseOk(x.r) \/ x.payload.kind = "error"}

\* route.ts:192-226 with every blockTime present and no reference marked
\* err: analyzeWallet runs on from the return of getSignatures, or from the
\* end of a pass of the loop, to its next await or to its return.
Settle(w, cap, address) ==
    LET n == SigCount(w.sigs)
        w2 == IF w.pc = "history"
              THEN AnalyzeHistory(w, address,
                                  IF n > 0 THEN BlockTime(SigAt(w.sigs, n)) ELSE NullTime,
                                  IF n > 0 THEN BlockTime(SigAt(w.sigs, 1)) ELSE NullTime)
              ELSE w
    IN  IF w2.pc = "loop" THEN Loop(w2, cap, 0, address) ELSE w2

\* route.ts:316-317: the flow analyzeWallet has returned is pushed.
Collect(run) ==
    IF run.w.pc = "done"
    THEN [run EXCEPT !.results = Append(@, run.w.flow), !.i = @ + 1, !.w.pc = "collected"]
    ELSE run

\* The fetch of the execution has met x.
RunRespond(run, x, rpcUrl, hist, cap, address) ==
    LET a == RpcAttempt(run.c, x.r, run.idx)
        c2 == AfterResponse(run.c, x.r, run.idx)
        paging == run.w.pc = "sigs"
    IN  IF a.kind = "retry" THEN [run EXCEPT !.c = c2, !.idx = a.idx]
        ELSE LET w1 == IF a.kind = "throw"
                       THEN IF paging THEN PageFailure(run.w, address, a.err)
                            ELSE DetailFailure(run.w, address, a.err)
                       ELSE IF paging
                       THEN IF x.payload.kind = "error"
                            THEN PageFailure(run.w, address, "RPC Error")
                            ELSE LET p == PageRequest(run.w, cap) IN
                                 AfterPage(run.w, p.before + 1, PageFull(hist, p), cap)
                       ELSE AfterDetail(run.w, GetTransaction(x.payload))
                 w2 == Settle(w1, cap, address)
             IN  Collect([run EXCEPT !.w = w2,
                                     !.c = IF w2.pc = "txs" THEN NewCall(rpcUrl) ELSE c2,
                                     !.idx = a.idx])

\* A delay of the execution is over: that of rpcCall, that between two
\* pages or two detail calls, or that between two wallets (cap >= 1).
RunTick(run, rpcUrl) ==
    IF run.w.pc \in {"sigs", "txs"} THEN [run EXCEPT !.c = AfterDelay(run.c)]
    ELSE IF run.w.pc = "sigs_delay"
    THEN [run EXCEPT !.w.pc = "sigs", !.c = NewCall(rpcUrl)]
    ELSE IF run.w.pc = "txs_delay"
    THEN [run EXCEPT !.w.pc = "txs", !.c = NewCall(rpcUrl)]
    ELSE [run EXCEPT !.w = [IdleWallet EXCEPT !.pc = "sigs"], !.c = NewCall(rpcUrl)]

(* analyzeWalletHelius *)

\* A transaction of the Helius answer: its nativeTransfers (absent, or a
\* list of transfers) and its timestamp.  A transfer is to the wallet
\* ("in"), from it ("out"), both ("self") or neither ("other").
Transfer(dir, amount) == [dir |-> dir, amount |-> amount]
HeliusTx(native, transfers, timed) == [native |-> native, transfers |-> transfers, timed |-> timed]

PlainTx == HeliusTx(TRUE, <<Transfer("in", 1)>>, TRUE)

HeliusTxs ==
    {PlainTx,
     HeliusTx(FALSE, <<>>, TRUE),
     HeliusTx(TRUE, <<>>, FALSE),
     HeliusTx(TRUE, <<Transfer("out", 2)>>, TRUE),
     HeliusTx(TRUE, <<Transfer("self", 1)>>, FALSE),
     HeliusTx(TRUE, <<Transfer("other", 2), Transfer("out", 2)>>, TRUE)}

PlainTxs == <<PlainTx>>

\* The lists of 0..MaxTxs transactions of which all but the first or all
\* but the last are plain.
HeliusLists ==
    {<<>>}
    \cup {[j \in 1..n |-> IF j = 1 THEN t ELSE PlainTx] : n \in 1..MaxTxs, t \in HeliusTxs}
    \cup {[j \in 1..n |-> IF j = n THEN t ELSE PlainTx] : n \in 1..MaxTxs, t \in HeliusTxs}

\* What the fetch of analyzeWalletHelius can meet: it throws, a status
\* that is not ok, or a list of transactions.
HeliusAnswer(kind, status, txs) == [kind |-> kind, status |-> status, txs |-> txs]

HeliusAnswers ==
    {HeliusAnswer("threw", 0, <<>>)}
    \cup {HeliusAnswer("status", st, <<>>) : st \in {429, 500, 404}}
    \cup {HeliusAnswer("ok", 200, txs) : txs \in HeliusLists}

PlainAnswer == HeliusAnswer("ok", 200, PlainTxs)

\* route.ts:452-459
RECURSIVE TransfersIn(_)
TransfersIn(transfers) ==
    IF transfers = <<>> THEN 0
    ELSE (IF Head(transfers).dir \in {"in", "self"} THEN Head(transfers).amount ELSE 0)
         + TransfersIn(Tail(transfers))

RECURSIVE TransfersOut(_)
TransfersOut(transfers) ==
    IF transfers = <<>> THEN 0
    ELSE (IF Head(transfers).dir \in {"out", "self"} THEN Head(transfers).amount ELSE 0)
         + TransfersOut(Tail(transfers))

\* route.ts:446-460
RECURSIVE HeliusInflow(_)
HeliusInflow(txs) ==
    IF txs = <<>> THEN 0
    ELSE (IF Head(txs).native THEN TransfersIn(Head(txs).transfers) ELSE 0)
         + HeliusInflow(Tail(txs))

RECURSIVE HeliusOutflow(_)
HeliusOutflow(txs) ==
    IF txs = <<>> THEN 0
    ELSE (IF Head(txs).native THEN TransfersOut(Head(txs).transfers) ELSE 0)
         + HeliusOutflow(Tail(txs))

\* `timestamp || null` of the transaction at position j of the answer
HeliusTime(txs, j) == IF txs[j].timed THEN BlockTime(j) ELSE NullTime

\* Mutant: the flow of a failed call keeps a count.
HeliusErrorFlowCounts(address, message) ==
    [ErrorFlow(address, message) EXCEPT !.transactionCount = 1]

\* route.ts:406-415, 419-428, 475-484
HeliusErrorFlow(address, message) == ErrorFlow(address, message)

\* Mutant: net flow is the sum of inflow and outflow.
HeliusFlowNetSum(address, txs) ==
    [address |-> address,
     totalInflow |-> HeliusInflow(txs),
     totalOutflow |-> HeliusOutflow(txs),
     netFlow |-> HeliusInflow(txs) + HeliusOutflow(txs),
     transactionCount |-> Len(txs),
     firstTxTime |-> HeliusTime(txs, Len(txs)),
     lastTxTime |-> HeliusTime(txs, 1),
     error |-> None]

\* route.ts:446-473
HeliusFlow(address, txs) ==
    [address |-> address,
     totalInflow |-> HeliusInflow(txs),
     totalOutflow |-> HeliusOutflow(txs),
     netFlow |-> HeliusInflow(txs) - HeliusOutflow(txs),
     transactionCount |-> Len(txs),
     firstTxTime |-> HeliusTime(txs, Len(txs)),
     lastTxTime |-> HeliusTime(txs, 1),
     error |-> None]

\* Mutant: an empty answer is reported as a failure.
HeliusEmptyIsError(address) == ErrorFlow(address, "No transactions")

\* route.ts:433-444
HeliusEmpty(address) == EmptyFlow(address)

\* One call of analyzeWalletHelius for a wallet of the batch; `met` is what
\* its fetch met last (the kind of the answer and the number of transactions).
\* `wait` is the delay the call is in, in ms.
IdleRun ==
    [pc |-> "idle", retryCount |-> 0, wait |-> 0, flow |-> NoFlow, met |-> None, txs |-> 0]

\* Mutant: the exponential schedule of rpcCall.
HeliusDelayExponential(retryCount) == HELIUS_BACKOFF_MS * (2 ^ retryCount)

\* route.ts:404
HeliusDelay(retryCount) == HELIUS_BACKOFF_MS * (retryCount + 1)
RunDone(run, flow) == [run EXCEPT !.pc = "done", !.flow = flow]

\* route.ts:398-485: the fetch of the run has met `answer`.
AnalyzeWalletHelius(run, address, answer) ==
    IF answer.kind = "threw" THEN RunDone(run, HeliusErrorFlow(address, "fetch failed"))
    ELSE IF answer.status = 429
    THEN IF run.retryCount < HELIUS_RETRIES
         THEN [run EXCEPT !.pc = "wait", !.wait = HeliusDelay(run.retryCount)]
         ELSE RunDone(run, HeliusErrorFlow(address, "Rate limited"))
    ELSE IF answer.kind = "status" THEN RunDone(run, HeliusErrorFlow(address, "API error"))
    ELSE IF answer.txs = <<>> THEN RunDone(run, HeliusEmpty(address))
    ELSE RunDone(run, HeliusFlow(address, answer.txs))

\* Mutant: the chunk is everything that is left of the batch.
ChunkAllLeft(wallets, i) == {k \in 1..Len(wallets) : i < k}

\* route.ts:496: wallets.slice(i, i + PARALLEL_WALLETS), as positions 1..
Chunk(wallets, i) == {k \in 1..Len(wallets) : i < k /\ k <= i + PARALLEL_WALLETS}

\* processWalletsParallel: i, results, and the analyses by position; `order`
\* lists the positions in the order in which their analyses completed.
IdleHel == [pc |-> "idle", i |-> 0, results |-> <<>>, runs |-> <<>>, order |-> <<>>]

\* route.ts:497-498: the analyses of the chunk at i are started.
StartChunk(h, wallets, i) ==
    [h EXCEPT !.pc = "chunk", !.i = i,
              !.runs = [k \in 1..Len(wallets) |->
                          IF k \in Chunk(wallets, i)
                          THEN [IdleRun EXCEPT !.pc = "fetch"] ELSE h.runs[k]]]

\* The flows of the chunk at i, in the order of the chunk (Promise.all).
RECURSIVE ChunkResults(_, _, _)
ChunkResults(runs, from, to) ==
    IF from > to THEN <<>> ELSE <<runs[from].flow>> \o ChunkResults(runs, from + 1, to)

\* Mutant: the flows of the chunk are pushed last first.
ChunkPushReversed(h, wallets) ==
    LET last == Min(h.i + PARALLEL_WALLETS, Len(wallets))
        flows == ChunkResults(h.runs, h.i + 1, last)
        results == h.results \o [k \in 1..Len(flows) |-> flows[Len(flows) + 1 - k]]
    IN  IF h.i + PARALLEL_WALLETS < Len(wallets)
        THEN [h EXCEPT !.results = results, !.pc = "batch_delay"]
        ELSE [h EXCEPT !.results = results, !.pc = "returned"]

\* route.ts:500-505: Promise.all of the chunk has resolved.
ChunkPush(h, wallets) ==
    LET last == Min(h.i + PARALLEL_WALLETS, Len(wallets))
        results == h.results \o ChunkResults(h.runs, h.i + 1, last)
    IN  IF h.i + PARALLEL_WALLETS < Len(wallets)
        THEN [h EXCEPT !.results = results, !.pc = "batch_delay"]
        ELSE [h EXCEPT !.results = results, !.pc = "returned"]

(* Endpoints that answer every fetch the same way *)

\* One answer for each class of rpcCall: ok, rate limit, server error,
\* generic failure, network error.
FixedResponses ==
    {r \in Responses : r.threw \/ r.status \in {200, 429, 500, 400}}

\* A world: what every fetch to each endpoint meets.
Worlds == [Urls -> FixedResponses]

IdleNet == [u \in Urls |-> [threw |-> FALSE, status |-> 200]]

(* The batch loop of the RPC route (route.ts:311-318) run twice in one     *)
(* process over the same list: the second request finds currentRpcIndex   *)
(* where the first left it.                                                *)

TwiceLists == {<<"A">>, <<"A", "B">>}

\* pass is 1 or 2 while that request runs and 3 once both are over; first
\* holds the flows of the first request, mid the index it left.
TwiceOf(list, rpcUrl, hist, payload) ==
    [pass |-> 1, list |-> list, rpc |-> rpcUrl, hist |-> hist, payload |-> payload,
     run |-> IsoRun(0), first |-> <<>>, mid |-> 0]

IdleTwice == [TwiceOf(<<>>, DEFAULT_RPC, 0, [kind |-> "absent", diff |-> 0]) EXCEPT !.pass = 0]

(* The fold of analyzeWallet (route.ts:206-269) over the transactions the  *)
(* detail calls returned, and over the same transactions in another order. *)

FoldLen == 3          \* at most FoldLen detail calls

\* The lists of at most n detail payloads.
RECURSIVE PayloadLists(_)
PayloadLists(n) ==
    IF n = 0 THEN {<<>>}
    ELSE LET shorter == PayloadLists(n - 1) IN
         shorter \cup {Append(l, x) : l \in {y \in shorter : Len(y) = n - 1},
                                     x \in DetailPayloads}

\* The orders in which n detail calls can be taken.
Orders(n) ==
    {f \in [1..n -> 1..n] : \A i, j \in 1..n : f[i] = f[j] => i = j}

\* The locals of analyzeWallet at the head of its loop (route.ts:206-208).
FoldStart == [IdleWallet EXCEPT !.pc = "loop"]

\* k payloads have been folded, into a in the order of txs and into b in
\* the order perm of txs.
FoldOf(txs, perm) ==
    [pc |-> "loop", txs |-> txs, perm |-> perm, k |-> 0, a |-> FoldStart, b |-> FoldStart]

IdleFold == [FoldOf(<<>>, <<>>) EXCEPT !.pc = "idle"]

----------------------------------------------------------------------------
(* Specification of the call layer: the logical calls of CallIds share     *)
(* currentRpcIndex, as the requests served by one process do.              *)

Init ==
    /\ currentRpcIndex = 0
    /\ calls = [c \in CallIds |-> IdleCall]
    /\ obs = NoObs
    /\ rpc = DEFAULT_RPC
    /\ scn = QuietScenario
    /\ wal = IdleWallet
    /\ tally = NoTally
    /\ post = IdlePost
    /\ hel = IdleHel
    /\ iso = IdleIso
    /\ net = IdleNet
    /\ twice = IdleTwice
    /\ fold = IdleFold

\* POST, route.ts:304: rpc is the caller's URL (rpcUrl or SOLANA_RPC_URL),
\* any string, or DEFAULT_RPC; getSignatures and getTransaction start every
\* logical call on it.
StartCall(c) ==
    /\ calls[c].pc = "idle"
    /\ \E supplied \in BOOLEAN :
         \E u \in (IF supplied THEN Urls ELSE {DEFAULT_RPC}) :
            /\ calls' = [calls EXCEPT ![c] = NewCall(u)]
            /\ obs' = IF c = Observed THEN ObsStart(supplied, u) ELSE obs
    /\ UNCHANGED <<currentRpcIndex, walletVars, serviceVars, replayVars>>

\* The fetch of call c settles with r and the continuation of rpcCall runs up
\* to its next await (a delay) or to its return or throw.
RespondWith(c, r) ==
    /\ calls[c].pc = "fetch"
    /\ calls' = [calls EXCEPT ![c] = AfterResponse(calls[c], r, currentRpcIndex)]
    /\ currentRpcIndex' = RpcAttempt(calls[c], r, currentRpcIndex).idx
    /\ obs' = IF c = Observed THEN ObsResponse(obs, calls[c], r, currentRpcIndex) ELSE obs
    /\ UNCHANGED <<walletVars, serviceVars, replayVars>>

Respond(c) == \E r \in Responses : RespondWith(c, r)

Resume(c) ==
    /\ calls[c].pc = "delay"
    /\ calls' = [calls EXCEPT ![c] = AfterDelay(calls[c])]
    /\ obs' = IF c = Observed THEN ObsFetch(obs, calls[c].url) ELSE obs
    /\ UNCHANGED <<currentRpcIndex, walletVars, serviceVars, replayVars>>

Next ==
    \E c \in CallIds : StartCall(c) \/ Respond(c) \/ Resume(c)

Spec == Init /\ [][Next]_vars

FairSpec == Spec /\ \A c \in CallIds : WF_vars(Respond(c)) /\ WF_vars(Resume(c))

----------------------------------------------------------------------------
(* Specification of the race: the two logical calls in flight together,    *)
(* in any interleaving of their continuations, against endpoints that      *)
(* answer every fetch the same way.                                         *)

InitRace ==
    /\ currentRpcIndex = 0
    /\ calls = [c \in CallIds |-> IdleCall]
    /\ obs = NoObs
    /\ rpc = DEFAULT_RPC
    /\ scn = QuietScenario
    /\ wal = IdleWallet
    /\ tally = NoTally
    /\ post = IdlePost
    /\ hel = IdleHel
    /\ iso = IdleIso
    /\ net \in Worlds
    /\ twice = IdleTwice
    /\ fold = IdleFold

\* The fetch of call c settles with what its endpoint always answers.
RespondFixed(c) == RespondWith(c, net[calls[c].url])

NextRace ==
    \E c \in CallIds : StartCall(c) \/ RespondFixed(c) \/ Resume(c)

SpecRace == InitRace /\ [][NextRace]_vars

----------------------------------------------------------------------------
(* Properties of the call layer *)

Active(c) == calls[c].pc \in {"fetch", "delay"}
Finished(c) == calls[c].pc \in {"ok", "failed"}
PoolSize == Len(PUBLIC_RPC_ENDPOINTS)
ObsCall == calls[Observed]

\* The observed call, had it run alone in this process.
AloneSucceeds == RunAlone(NewCall(obs.start), 0, net) = "return"

\* C25: for fixed endpoint responses, a call that succeeds when run alone
\* also succeeds under every interleaving with the other call.
C25_RaceDoesNotBreakCalls ==
    (Finished(Observed) /\ AloneSucceeds) => ObsCall.pc = "ok"

\* On an endpoint outside the pool no rotation takes place, and the other
\* call cannot change the outcome.
RaceHarmlessOffPool ==
    (Finished(Observed) /\ AloneSucceeds /\ obs.start \notin PoolUrls) => ObsCall.pc = "ok"

\* And a call that no response makes rotate is not affected either.
RaceHarmlessWithoutRotation ==
    (Finished(Observed) /\ AloneSucceeds /\ obs.cls \in {None, "generic"}) => ObsCall.pc = "ok"

\* A response of the class 5xx/401/403 reaches the observed call while it
\* cannot rotate by the rule of the claim: a custom endpoint, or every pool
\* endpoint tried.
ServerErrorNoAlternate(r) ==
    /\ ObsCall.pc = "fetch"
    /\ (ObsCall.url \notin PoolUrls \/ ObsCall.endpointsTried >= PoolSize)
    /\ FailureClass(r) = "server"
    /\ RespondWith(Observed, r)

\* C1: a logical call started on a pool endpoint that met only permanent
\* failures of one class (429, or 5xx/401/403, or network errors) has failed
\* after exactly one attempt on each pool endpoint.
C1_OneAttemptPerEndpoint ==
    (/\ ObsCall.pc = "failed"
     /\ obs.start \in PoolUrls
     /\ obs.cls \in {"rate", "server", "network"})
    => \A u \in PoolUrls : obs.attempts[u] = 1

\* C2: a 5xx/401/403 answer to a call on a pool endpoint that has tried fewer
\* endpoints than the pool holds is followed by an attempt on a different
\* pool endpoint, whatever currentRpcIndex is.
C2_ServerErrorRotates ==
    [][\A r \in Responses :
          (/\ ObsCall.pc = "fetch"
           /\ ObsCall.url \in PoolUrls
           /\ ObsCall.endpointsTried < PoolSize
           /\ FailureClass(r) = "server"
           /\ RespondWith(Observed, r))
          => (/\ calls'[Observed].pc = "delay"
              /\ calls'[Observed].url \in PoolUrls \ {ObsCall.url})]_vars

\* C3 as stated: a 5xx/401/403 answer with no alternate endpoint is retried on
\* the same endpoint after BASE_DELAY_MS * 2^retryCount while retries remain.
C3_ServerErrorBacksOff ==
    [][\A r \in Responses :
          (ServerErrorNoAlternate(r) /\ ObsCall.retryCount < MAX_RETRIES)
          => (/\ calls'[Observed].pc = "delay"
              /\ calls'[Observed].url = ObsCall.url
              /\ calls'[Observed].retryCount = ObsCall.retryCount + 1
              /\ obs'.waited = obs.waited + BASE_DELAY_MS * (2 ^ ObsCall.retryCount))]_vars

\* C3 amended: a 5xx/401/403 answer with no alternate endpoint (a custom
\* endpoint, or every pool endpoint tried) makes the call fail on that
\* response: no wait, no further attempt.
C3_ServerErrorFailsAtOnce ==
    [][\A r \in Responses :
          ServerErrorNoAlternate(r)
          => (/\ calls'[Observed].pc = "failed"
              /\ calls'[Observed].retryCount = ObsCall.retryCount
              /\ obs'.waited = obs.waited
              /\ obs'.attempts = obs.attempts)]_vars

\* A case of C3 has happened: after one rotation every pool endpoint is tried,
\* the second endpoint answered 5xx/401/403 too, and the call failed there
\* having waited for the rotation only, never for a backoff.
C3_Witness ==
    /\ ObsCall.pc = "failed"
    /\ obs.cls = "server"
    /\ obs.start \in PoolUrls
    /\ ObsCall.endpointsTried = PoolSize
    /\ TotalAttempts(obs) = PoolSize
    /\ obs.waited = REQUEST_DELAY_MS

\* C4: every attempt of a call whose endpoint the caller supplied goes to that
\* endpoint, whatever string it is.
C4_SuppliedNeverRotated ==
    (obs.supplied /\ ObsCall.pc # "idle") => ObsCall.url = obs.start

\* C5: on an endpoint that cannot rotate, after K answers that are 429 or
\* network errors the call has waited BASE_DELAY_MS * (2^K - 1) in all (the
\* wait before retry n is BASE_DELAY_MS * 2^n), it has made K + 1 attempts with
\* K <= MAX_RETRIES, and it fails on such answers only at the attempt after
\* retry MAX_RETRIES.
C5_BackoffSchedule ==
    obs.start = CustomUrl =>
        /\ ObsCall.url = CustomUrl
        /\ ObsCall.retryCount <= MAX_RETRIES
        /\ obs.waited = BASE_DELAY_MS * ((2 ^ ObsCall.retryCount) - 1)
        /\ TotalAttempts(obs) =
              (IF ObsCall.pc = "delay" THEN ObsCall.retryCount
               ELSE ObsCall.retryCount + 1)
        /\ (ObsCall.pc = "failed" /\ obs.cls \in {"rate", "network", "transient"})
              => (ObsCall.retryCount = MAX_RETRIES
                  /\ TotalAttempts(obs) = MAX_RETRIES + 1)

\* A custom endpoint answered 429 or network error MAX_RETRIES times and then
\* succeeded.
C5_Witness ==
    /\ obs.start = CustomUrl
    /\ ObsCall.pc = "ok"
    /\ ObsCall.retryCount = MAX_RETRIES
    /\ obs.cls \in {"rate", "network", "transient"}
    /\ TotalAttempts(obs) = MAX_RETRIES + 1

\* C6: every logical call in flight returns or throws, and it never makes
\* more than |PUBLIC_RPC_ENDPOINTS| * (MAX_RETRIES + 1) attempts.
C6_TerminatesBounded ==
    /\ [](TotalAttempts(obs) <= PoolSize * (MAX_RETRIES + 1))
    /\ \A c \in CallIds : Active(c) ~> Finished(c)

\* The bound is met: a call has failed after |pool| * (MAX_RETRIES + 1)
\* attempts, while the other call moved currentRpcIndex.
C6_Witness ==
    /\ ObsCall.pc = "failed"
    /\ TotalAttempts(obs) = PoolSize * (MAX_RETRIES + 1)

\* C28: an answer that is not ok and is none of 429, 5xx, 401, 403 makes the
\* call fail on that answer: no wait, no further attempt on any endpoint, and
\* currentRpcIndex stays as it was.
C28_GenericFailureFailsAtOnce ==
    [][\A r \in Responses :
          (/\ ObsCall.pc = "fetch"
           /\ FailureClass(r) = "generic"
           /\ RespondWith(Observed, r))
          => (/\ calls'[Observed].pc = "failed"
              /\ calls'[Observed].url = ObsCall.url
              /\ calls'[Observed].retryCount = ObsCall.retryCount
              /\ calls'[Observed].endpointsTried = ObsCall.endpointsTried
              /\ obs'.waited = obs.waited
              /\ obs'.attempts = obs.attempts
              /\ currentRpcIndex' = currentRpcIndex)]_vars

\* A call on a pool endpoint that had tried that endpoint only has failed on
\* a generic failure, its first answer.
C28_Witness ==
    /\ ObsCall.pc = "failed"
    /\ obs.cls = "generic"
    /\ obs.start \in PoolUrls
    /\ ObsCall.endpointsTried = 1
    /\ TotalAttempts(obs) = 1

\* The answers on which rpcCall calls getNextRpcEndpoint (route.ts:88, 109,
\* 123).
CallsGetNext(r) == FailureClass(r) \in {"rate", "server", "network"}

\* C32: a call of getNextRpcEndpoint with a URL outside the pool leaves
\* currentRpcIndex as it is; with a pool URL it advances the index by one
\* modulo the pool size, also when it returns null and when rpcCall drops
\* the endpoint it returned because endpointsTried has reached the pool size.
C32_IndexAdvancesOnEveryPoolCall ==
    [][\A c \in CallIds : \A r \in Responses :
          (calls[c].pc = "fetch" /\ CallsGetNext(r) /\ RespondWith(c, r))
          => (/\ calls[c].url \notin PoolUrls => currentRpcIndex' = currentRpcIndex
              /\ calls[c].url \in PoolUrls
                   => currentRpcIndex' = (currentRpcIndex + 1) % PoolSize)]_vars

\* The observed call, the only one started, has rotated from the first pool
\* endpoint to the second on a server error and has failed there on another:
\* getNextRpcEndpoint returned the first endpoint, rpcCall dropped it, and
\* the index has gone 0, 1, 0.
C32_Witness ==
    /\ calls["b"] = IdleCall
    /\ ObsCall.pc = "failed"
    /\ obs.start = PUBLIC_RPC_ENDPOINTS[1]
    /\ ObsCall.url = PUBLIC_RPC_ENDPOINTS[2]
    /\ ObsCall.endpointsTried = PoolSize
    /\ obs.cls = "server"
    /\ currentRpcIndex = 0

----------------------------------------------------------------------------
(* Specification of the wallet layer: analyzeWallet(rpc, wallet, cap) from *)
(* its call to the WalletFlow it returns.  Its rpcCall is calls[Observed]. *)
(* currentRpcIndex starts at any value earlier requests can have left.     *)

WalletCall == calls[Observed]
EventsLeft == scn.events - tally.events
Bit(b) == IF b THEN 1 ELSE 0

InitWallet ==
    /\ currentRpcIndex \in 0..(Len(PUBLIC_RPC_ENDPOINTS) - 1)
    /\ calls = [c \in CallIds |-> IdleCall]
    /\ obs = NoObs
    /\ rpc \in Urls
    /\ scn \in Scenarios
    /\ wal = IdleWallet
    /\ tally = NoTally
    /\ post = IdlePost
    /\ hel = IdleHel
    /\ iso = IdleIso
    /\ net = IdleNet
    /\ twice = IdleTwice
    /\ fold = IdleFold

\* The tally once the page request for the state w of getSignatures is issued.
IssuePage(w, t) ==
    LET p == PageRequest(w, scn.cap) IN
    [t EXCEPT !.pageRequests = @ + 1, !.reqLimit = p.limit, !.reqBefore = p.before,
              !.afterShort = @ + Bit(t.shortSeen), !.afterEmpty = @ + Bit(t.emptySeen)]

\* blockTime of the first and of the last reference collected, as the
\* provider reports them: the time of the reference, or none.
NewestTimes(w) ==
    IF w.pc = "history" /\ SigCount(w.sigs) > 0
    THEN {BlockTime(SigAt(w.sigs, 1)), NullTime} ELSE {NullTime}

OldestTimes(w, tNewest) ==
    IF w.pc = "history" /\ SigCount(w.sigs) > 1
    THEN {BlockTime(SigAt(w.sigs, SigCount(w.sigs))), NullTime} ELSE {tNewest}

TimeEvents(w, tOldest, tNewest) ==
    IF w.pc = "history" /\ SigCount(w.sigs) > 0
    THEN Bit(tNewest = NullTime) + Bit(SigCount(w.sigs) > 1 /\ tOldest = NullTime)
    ELSE 0

\* The continuation runs on from w1 (the wallet after the handler proper, c1
\* its call, t1 the tally) to its next await or to the return of the flow:
\* analyzeWallet takes over when getSignatures has returned, and the loop
\* skips the references marked err.
Proceed(w1, c1, t1) ==
    \E tNewest \in NewestTimes(w1) : \E tOldest \in OldestTimes(w1, tNewest) :
      LET w2 == IF w1.pc = "history"
                THEN AnalyzeHistory(w1, WalletAddress, tOldest, tNewest) ELSE w1
          used == t1.events + TimeEvents(w1, tOldest, tNewest)
          most == IF w2.pc = "loop"
                  THEN Min(scn.events - used, TxsToProcess(w2, scn.cap) - w2.i) ELSE 0
      IN  /\ used <= scn.events
          /\ \E skips \in 0..most :
               LET w3 == IF w2.pc = "loop" THEN Loop(w2, scn.cap, skips, WalletAddress) ELSE w2 IN
               /\ wal' = w3
               /\ calls' = [calls EXCEPT ![Observed] = IF w3.pc = "txs" THEN NewCall(rpc) ELSE c1]
               /\ tally' = [t1 EXCEPT !.events = used + skips,
                                      !.errSkipped = @ + skips,
                                      !.errFetched =
                                          \/ @
                                          \/ /\ w3.pc \in {"txs", "txs_delay"}
                                             /\ w3.i \in w2.i .. (w2.i + skips - 1),
                                      !.detailCalls = @ + Bit(w3.pc = "txs")]

\* analyzeWallet is called: getSignatures issues its first page request, or
\* returns at once when the cap admits none.
WBegin ==
    /\ wal.pc = "pending"
    /\ \/ /\ 0 < scn.cap
          /\ wal' = [wal EXCEPT !.pc = "sigs"]
          /\ calls' = [calls EXCEPT ![Observed] = NewCall(rpc)]
          /\ tally' = IssuePage(wal, tally)
       \/ /\ ~(0 < scn.cap)
          /\ Proceed([wal EXCEPT !.pc = "history"], WalletCall, tally)
    /\ UNCHANGED <<currentRpcIndex, obs, rpc, scn, serviceVars, replayVars>>

Fetching == wal.pc \in {"sigs", "txs"} /\ WalletCall.pc = "fetch"

\* The fetch fails and rpcCall rotates or backs off.
WRetry ==
    /\ Fetching
    /\ EventsLeft > 0
    /\ \E r \in Responses :
         LET a == RpcAttempt(WalletCall, r, currentRpcIndex) IN
         /\ a.kind = "retry"
         /\ calls' = [calls EXCEPT ![Observed] = AfterResponse(WalletCall, r, currentRpcIndex)]
         /\ currentRpcIndex' = a.idx
    /\ tally' = [tally EXCEPT !.events = @ + 1]
    /\ UNCHANGED <<obs, rpc, scn, wal, serviceVars, replayVars>>

\* The delay of rpcCall is over: it fetches again.
WResume ==
    /\ wal.pc \in {"sigs", "txs"}
    /\ WalletCall.pc = "delay"
    /\ calls' = [calls EXCEPT ![Observed] = AfterDelay(WalletCall)]
    /\ UNCHANGED <<currentRpcIndex, obs, rpc, scn, wal, tally, serviceVars, replayVars>>

\* The fetch fails and rpcCall throws: into getSignatures or getTransaction
\* and from there into the catch of analyzeWallet.
WThrow ==
    /\ Fetching
    /\ EventsLeft > 0
    /\ \E r \in Responses :
         LET a == RpcAttempt(WalletCall, r, currentRpcIndex)
             paging == wal.pc = "sigs"
         IN  /\ a.kind = "throw"
             /\ currentRpcIndex' = a.idx
             /\ Proceed(IF paging THEN PageFailure(wal, WalletAddress, a.err)
                        ELSE DetailFailure(wal, WalletAddress, a.err),
                        AfterResponse(WalletCall, r, currentRpcIndex),
                        [tally EXCEPT !.events = @ + 1,
                                      !.histFailed = @ \/ paging,
                                      !.detailThrew = @ \/ ~paging])
    /\ UNCHANGED <<obs, rpc, scn, serviceVars, replayVars>>

\* A page request is answered 200 with a JSON-RPC error: getSignatures throws.
WPageError ==
    /\ Fetching /\ wal.pc = "sigs"
    /\ EventsLeft > 0
    /\ \E r \in Responses :
         /\ RpcAttempt(WalletCall, r, currentRpcIndex).kind = "return"
         /\ Proceed(PageFailure(wal, WalletAddress, "RPC Error"),
                    AfterResponse(WalletCall, r, currentRpcIndex),
                    [tally EXCEPT !.events = @ + 1, !.histFailed = TRUE])
    /\ UNCHANGED <<currentRpcIndex, obs, rpc, scn, serviceVars, replayVars>>

\* A page request is answered 200 with k entries, those after the cursor.
WPage ==
    /\ Fetching /\ wal.pc = "sigs"
    /\ \E r \in Responses :
         LET params == [limit |-> tally.reqLimit, before |-> tally.reqBefore]
             full == PageFull(scn.hist, params)
         IN  /\ RpcAttempt(WalletCall, r, currentRpcIndex).kind = "return"
             /\ \E k \in {full} \cup (IF EventsLeft > 0 THEN ShortSizes(full) ELSE {}) :
                  Proceed(AfterPage(wal, params.before + 1, k, scn.cap),
                          AfterResponse(WalletCall, r, currentRpcIndex),
                          [tally EXCEPT !.events = @ + Bit(k < full),
                                        !.pages = @ + 1,
                                        !.lastPage = k,
                                        !.lazyPages = @ + Bit(k < full),
                                        !.shortSeen = @ \/ k < params.limit,
                                        !.emptySeen = @ \/ k = 0])
    /\ UNCHANGED <<currentRpcIndex, obs, rpc, scn, serviceVars, replayVars>>

PlainPayload == [kind |-> "delta", diff |-> 0]

\* A detail request is answered 200.
WDetail ==
    /\ Fetching /\ wal.pc = "txs"
    /\ \E r \in Responses :
         /\ RpcAttempt(WalletCall, r, currentRpcIndex).kind = "return"
         /\ \E payload \in (IF EventsLeft > 0 THEN DetailPayloads ELSE {PlainPayload}) :
              LET tx == GetTransaction(payload) IN
              Proceed(AfterDetail(wal, tx),
                      AfterResponse(WalletCall, r, currentRpcIndex),
                      [tally EXCEPT !.events = @ + Bit(payload # PlainPayload),
                                    !.unresolved = @ + Bit(tx.kind \in {"null", "nometa"}),
                                    !.rpcErrors = @ + Bit(payload.kind = "error")])
    /\ UNCHANGED <<currentRpcIndex, obs, rpc, scn, serviceVars, replayVars>>

\* The delay between two pages is over: the next page request is issued.
WNextPage ==
    /\ wal.pc = "sigs_delay"
    /\ wal' = [wal EXCEPT !.pc = "sigs"]
    /\ calls' = [calls EXCEPT ![Observed] = NewCall(rpc)]
    /\ tally' = IssuePage(wal, tally)
    /\ UNCHANGED <<currentRpcIndex, obs, rpc, scn, serviceVars, replayVars>>

\* The delay between two detail calls is over: getTransaction is called.
WNextDetail ==
    /\ wal.pc = "txs_delay"
    /\ wal' = [wal EXCEPT !.pc = "txs"]
    /\ calls' = [calls EXCEPT ![Observed] = NewCall(rpc)]
    /\ tally' = [tally EXCEPT !.detailCalls = @ + 1]
    /\ UNCHANGED <<currentRpcIndex, obs, rpc, scn, serviceVars, replayVars>>

NextWallet ==
    \/ WBegin
    \/ WRetry
    \/ WResume
    \/ WThrow
    \/ WPageError
    \/ WPage
    \/ WDetail
    \/ WNextPage
    \/ WNextDetail

SpecWallet == InitWallet /\ [][NextWallet]_vars

\* Every fetch is answered and every delay ends: the continuation that
\* waits for it runs.
FairSpecWallet == SpecWallet /\ WF_vars(NextWallet)

----------------------------------------------------------------------------
(* Properties of the wallet layer *)

\* getSignatures has returned its references to analyzeWallet.
HistoryReturned == wal.pc \in {"txs", "txs_delay", "done"} /\ ~tally.histFailed

\* The references min..max of the history, as allSignatures holds them.
Newest(n) == IF n <= 0 THEN <<>> ELSE <<[lo |-> 1, hi |-> n]>>

\* An error-bearing WalletFlow with nothing else in it.
BareError(flow) ==
    /\ flow.error # None
    /\ flow.totalInflow = 0 /\ flow.totalOutflow = 0 /\ flow.netFlow = 0
    /\ flow.transactionCount = 0
    /\ flow.firstTxTime = NullTime /\ flow.lastTxTime = NullTime

\* C7 as stated: no page request is issued after a page that returned fewer
\* entries than the page size asked for.
C7_NoRequestAfterShortPage == tally.afterShort = 0

\* C7 amended: the pagination stops at an empty page or when the cap is
\* reached, and only then: no request follows an empty page, a further request
\* is under way only after a non-empty page that left the collection under the
\* cap, and getSignatures returns only after an empty page or at the cap.
C7_StopsWhenEmptyOrFull ==
    /\ tally.afterEmpty = 0
    /\ wal.pc = "sigs_delay" => (tally.lastPage > 0 /\ SigCount(wal.sigs) < scn.cap)
    /\ (HistoryReturned /\ tally.pages > 0)
          => (tally.lastPage = 0 \/ SigCount(wal.sigs) >= scn.cap)

\* A page shorter than asked was followed by another request, which came back
\* empty, and the wallet was analysed.
C7_Witness ==
    /\ wal.pc = "done"
    /\ wal.flow.error = None
    /\ tally.afterShort >= 1
    /\ tally.emptySeen
    /\ SigCount(wal.sigs) > 0

\* C8: with a provider that answers every page with as many entries as asked
\* and available, and a cap of at least 1, getSignatures returns the newest
\* min(hist, cap) references in order, and transactionCount is at most the cap.
C8_ExactlyMinReferences ==
    (scn.cap >= 1 /\ tally.lazyPages = 0) =>
        /\ HistoryReturned => wal.sigs = Newest(Min(scn.hist, scn.cap))
        /\ wal.pc = "done" => wal.flow.transactionCount <= scn.cap

\* The scenario of the spec: 150 references, cap 100, exactly 100 collected
\* and all of them counted.
C8_Witness ==
    /\ scn.hist = BigHist /\ scn.cap = BigCap
    /\ wal.pc = "done"
    /\ tally.lazyPages = 0
    /\ wal.sigs = Newest(BigCap)
    /\ wal.flow.transactionCount = Min(BigCap, DETAIL_CAP)

\* C9: when a page request fails for good (rpcCall throws, or the payload is
\* a JSON-RPC error), on the first page or a later one, the analysis ends
\* there and the WalletFlow carries an error and nothing else.
C9_PageFailureGivesBareError ==
    tally.histFailed => (wal.pc = "done" /\ BareError(wal.flow))

\* A later page failed after references had been collected.
C9_Witness ==
    /\ tally.histFailed
    /\ wal.pc = "done"
    /\ tally.pages >= 1
    /\ SigCount(wal.sigs) > 0
    /\ BareError(wal.flow)

\* C10 as stated: a detail call that fails for good (rpcCall throws, or the
\* payload is a JSON-RPC error) leaves the wallet without error, every
\* reference visited, and only that reference uncounted.
C10_DetailFailureIsolated ==
    (wal.pc = "done" /\ (tally.detailThrew \/ tally.rpcErrors > 0))
        => (/\ wal.flow.error = None
            /\ wal.i = TxsToProcess(wal, scn.cap)
            /\ wal.flow.transactionCount
                  = tally.detailCalls - tally.unresolved - Bit(tally.detailThrew))

\* What analyzeWallet does with a failed detail call (the two halves of C10
\* apart): a detail call answered by a JSON-RPC error (or by no transaction
\* record) is skipped, it is not counted, the other references are still
\* resolved and the flow has no error; a detail call whose rpcCall throws
\* ends the analysis there with an error-bearing, otherwise empty flow.
ErrorPayloadSkippedThrowAborts ==
    /\ tally.detailThrew => (wal.pc = "done" /\ BareError(wal.flow))
    /\ (wal.pc = "done" /\ ~tally.detailThrew /\ ~tally.histFailed
            /\ SigCount(wal.sigs) > 0)
          => (/\ wal.flow.error = None
              /\ wal.i = TxsToProcess(wal, scn.cap)
              /\ tally.detailCalls = TxsToProcess(wal, scn.cap) - tally.errSkipped
              /\ wal.flow.transactionCount = tally.detailCalls - tally.unresolved)

\* The rpcCall of a detail call never throws after MAX_RETRIES backoffs on a
\* caller-supplied endpoint outside the pool (refuted: it does, and the
\* references resolved before it are lost with the flow).
DetailCallNeverExhaustsRetries ==
    ~(/\ wal.pc = "done"
      /\ tally.detailThrew
      /\ rpc = CustomUrl
      /\ WalletCall.retryCount = MAX_RETRIES
      /\ wal.processed >= 1
      /\ BareError(wal.flow))

\* C11: getTransaction is never called for a reference marked err; such a
\* reference is passed over (every reference of txsToProcess the loop has
\* left behind was either marked err or resolved by one call), and only
\* references getTransaction was called for are counted or add to the totals.
C11_FailedReferencesNotResolved ==
    /\ ~tally.errFetched
    /\ (tally.pages > 0 /\ HistoryReturned /\ ~tally.detailThrew) =>
          tally.errSkipped + tally.detailCalls
              = wal.i + Bit(wal.pc = "txs")
    /\ wal.processed <= tally.detailCalls
    /\ (wal.totalInflow + wal.totalOutflow > 0) => wal.processed > 0

\* Of three references one was marked err and passed over, the other two
\* were resolved by one call each and counted.
C11_Witness ==
    /\ wal.pc = "done"
    /\ wal.flow.error = None
    /\ wal.i = 3
    /\ tally.errSkipped = 1
    /\ tally.detailCalls = 2
    /\ wal.flow.transactionCount = 2

\* C12: in a flow without error transactionCount is the number of the
\* references of txsToProcess that were not marked err and whose detail call
\* returned a transaction record with meta.
C12_CountsResolvedOnly ==
    (wal.pc = "done" /\ wal.flow.error = None) =>
        /\ wal.flow.transactionCount
              = TxsToProcess(wal, scn.cap) - tally.errSkipped - tally.unresolved
        /\ wal.flow.transactionCount = tally.detailCalls - tally.unresolved

\* One reference was marked err, one resolved to nothing and one was counted.
C12_Witness ==
    /\ wal.pc = "done"
    /\ wal.flow.error = None
    /\ tally.errSkipped = 1
    /\ tally.unresolved = 1
    /\ wal.flow.transactionCount = 1

\* C26: the pages of a wallet are requested one at a time: a request is
\* outstanding only while getSignatures waits for it, the first request has
\* no cursor, a further request is issued only when every request before it
\* has returned its page, and its cursor is the last entry of the page that
\* arrived last (the last reference collected).
C26_PaginationSequential ==
    /\ [](/\ tally.pageRequests - tally.pages \in {0, 1}
          /\ (tally.pageRequests > tally.pages /\ ~tally.histFailed) => wal.pc = "sigs"
          /\ tally.pageRequests = 1 => tally.reqBefore = 0
          /\ (tally.pageRequests > 1 /\ tally.pageRequests > tally.pages)
                => tally.reqBefore = SigAt(wal.sigs, SigCount(wal.sigs)))
    /\ [][tally'.pageRequests # tally.pageRequests =>
            /\ tally'.pageRequests = tally.pageRequests + 1
            /\ tally.pages = tally.pageRequests
            /\ ~tally.histFailed
            /\ tally'.reqBefore = tally.reqBefore + tally.lastPage]_vars

\* The third page request is outstanding, after two pages of one entry each.
C26_Witness ==
    /\ wal.pc = "sigs" /\ WalletCall.pc = "fetch"
    /\ tally.pageRequests = 3
    /\ tally.pages = 2
    /\ tally.reqBefore = 2
    /\ SigCount(wal.sigs) = 2

\* C29: in a flow without error of a wallet with references, lastTxTime is
\* the blockTime of the first reference collected (the newest of the
\* history) and firstTxTime that of the last reference collected, or null
\* where the provider gave the entry no blockTime, whichever references the
\* loop resolved, skipped or never reached; the loop leaves both alone.
C29_TimesFromReferences ==
    /\ []((wal.pc = "done" /\ wal.flow.error = None /\ SigCount(wal.sigs) > 0) =>
            LET n == SigCount(wal.sigs) IN
            /\ SigAt(wal.sigs, 1) = 1
            /\ wal.flow.lastTxTime \in {BlockTime(SigAt(wal.sigs, 1)), NullTime}
            /\ wal.flow.firstTxTime \in {BlockTime(SigAt(wal.sigs, n)), NullTime}
            /\ wal.flow.lastTxTime = wal.lastTxTime
            /\ wal.flow.firstTxTime = wal.firstTxTime)
    /\ [][(wal.pc \in {"txs", "txs_delay"} /\ wal'.flow.error = None) =>
            /\ wal'.firstTxTime = wal.firstTxTime
            /\ wal'.lastTxTime = wal.lastTxTime]_vars

\* 150 references collected with a cap of 150, of which the loop took the
\* first 100 and counted all but one: the times are those of the 1st and
\* of the 150th reference.
C29_Witness ==
    /\ scn.hist = BigHist /\ scn.cap = BigHist
    /\ wal.pc = "done" /\ wal.flow.error = None
    /\ SigCount(wal.sigs) = BigHist
    /\ wal.i = DETAIL_CAP
    /\ wal.flow.transactionCount = DETAIL_CAP - 1
    /\ wal.flow.lastTxTime = BlockTime(1)
    /\ wal.flow.firstTxTime = BlockTime(BigHist)

\* C34: detail calls are issued only for references among the first
\* min(cap, DETAIL_CAP) of the fetched sequence; the number of getTransaction
\* calls of a wallet and its transactionCount never exceed DETAIL_CAP, also
\* when more references than that were fetched.
C34_DetailCallsCapped ==
    /\ wal.pc \in {"txs", "txs_delay"}
          => (wal.i < Min(scn.cap, DETAIL_CAP) /\ wal.i < SigCount(wal.sigs))
    /\ tally.detailCalls <= Min(scn.cap, DETAIL_CAP)
    /\ tally.detailCalls <= DETAIL_CAP
    /\ wal.processed <= DETAIL_CAP
    /\ wal.pc = "done" => wal.flow.transactionCount <= DETAIL_CAP

\* 150 references were fetched with a cap of 150; getTransaction was called
\* for the first 100 and the flow counts 100.
C34_Witness ==
    /\ scn.hist = BigHist /\ scn.cap = BigHist
    /\ wal.pc = "done"
    /\ SigCount(wal.sigs) = BigHist
    /\ SigCount(wal.sigs) > DETAIL_CAP
    /\ tally.detailCalls = DETAIL_CAP
    /\ wal.flow.transactionCount = DETAIL_CAP

\* The states of a wallet
Pending == wal.pc = "pending"
FetchingHistory == wal.pc \in {"sigs", "sigs_delay"}
ResolvingDetails == wal.pc \in {"txs", "txs_delay"}
Aggregated == wal.pc = "done" /\ wal.flow.error = None
Errored == wal.pc = "done" /\ wal.flow.error # None

\* C27: a wallet whose calls are all answered ends Aggregated or Errored;
\* it is in one of the five states at any time; no detail call is issued
\* before the history fetch is over and no page request after a detail call;
\* a call that throws takes the wallet to Errored in that step; and a wallet
\* that has ended issues no call and keeps its flow.
C27_WalletStateMachine ==
    /\ <>(Aggregated \/ Errored)
    /\ [](/\ Pending \/ FetchingHistory \/ ResolvingDetails \/ Aggregated \/ Errored
          /\ FetchingHistory => tally.detailCalls = 0
          /\ ResolvingDetails => (tally.pageRequests = tally.pages /\ WalletCall.pc # "idle")
          /\ (tally.histFailed \/ tally.detailThrew) => Errored
          /\ Errored => (tally.histFailed \/ tally.detailThrew))
    /\ [][/\ tally'.detailCalls > tally.detailCalls
              => (~FetchingHistory' /\ tally'.pageRequests = tally.pageRequests)
          /\ tally.detailCalls > 0 => tally'.pageRequests = tally.pageRequests
          /\ WalletCall.pc = "fetch" /\ calls'[Observed].pc = "failed" => Errored'
          /\ (Aggregated \/ Errored)
              => (wal' = wal /\ calls' = calls /\ tally' = tally)]_vars

\* Both terminal states are met after detail calls: Errored by a detail
\* call that threw after another had been counted.
C27_Witness ==
    /\ Errored
    /\ tally.detailThrew
    /\ tally.detailCalls >= 2
    /\ wal.processed >= 1

----------------------------------------------------------------------------
(* Specification of the service: one request to POST, on the RPC route or  *)
(* on the Helius route, from the arrival of its body to the response, in   *)
(* a process that has served no request before.                            *)

Items == post.body.items

Requests ==
    {Request("rpc", b, e, BatchEvents) :
        b \in Bodies, e \in {None, CustomUrl}}
    \cup {Request("helius", b, None, BatchEvents) :
              b \in {x \in Bodies : x.rpcUrl = None /\ x.maxTransactions \notin MalformedCaps}}

InitService ==
    /\ currentRpcIndex = 0
    /\ calls = [c \in CallIds |-> IdleCall]
    /\ obs = NoObs
    /\ rpc = DEFAULT_RPC
    /\ scn = QuietScenario
    /\ wal = [IdleWallet EXCEPT !.pc = "out"]
    /\ tally = NoTally
    /\ post \in {q \in Requests : q.body.rpcUrl = None \/ q.env = None}
    /\ hel = IdleHel
    /\ iso = IdleIso
    /\ net = IdleNet
    /\ twice = IdleTwice
    /\ fold = IdleFold

\* The histories the next wallet of the batch can have.
NextScenarios ==
    {Scenario(h, LimitOf(MaxTransactionsOf(post.body)), post.events) : h \in {0, BatchHist}}

\* The body has been read: the request is rejected, or the price lookup is
\* started and the analysis of the batch begins (route.ts:286-316 and
\* 513-534).
PostReceive ==
    /\ post.pc = "received"
    /\ LET v == Validate(post.body) IN
       IF ~v.ok
       THEN /\ post' = [post EXCEPT !.pc = "responded",
                                    !.response = ErrorResponse(v.status, v.error)]
            /\ UNCHANGED <<rpc, scn, wal, tally, hel>>
       ELSE IF post.route = "rpc"
       THEN /\ rpc' = ChooseRpc(post.body.rpcUrl, post.env)
            /\ scn' \in NextScenarios
            /\ wal' = IdleWallet
            /\ tally' = NoTally
            /\ post' = [post EXCEPT !.pc = "analyzing", !.i = 0, !.wallet = Items[1],
                                    !.price = StartPrice(post.price)]
            /\ UNCHANGED hel
       ELSE /\ hel' = StartChunk([IdleHel EXCEPT !.runs = [k \in 1..Len(Items) |-> IdleRun]],
                                 Items, 0)
            /\ post' = [post EXCEPT !.pc = "processing",
                                    !.price = StartPrice(post.price)]
            /\ UNCHANGED <<rpc, scn, wal, tally>>
    /\ UNCHANGED <<currentRpcIndex, calls, obs, iso, replayVars>>

\* route.ts:316-320: analyzeWallet has returned its flow; it is pushed, and
\* the loop waits before the next wallet or POST awaits the price.
PostCollect ==
    /\ post.route = "rpc" /\ post.pc = "analyzing"
    /\ wal.pc = "done"
    /\ post' = [post EXCEPT !.results = Append(@, wal.flow),
                            !.i = @ + 1,
                            !.events = @ - tally.events,
                            !.pc = IF post.i + 1 < Len(Items) THEN "delay" ELSE "await_price"]
    /\ wal' = [wal EXCEPT !.pc = "out"]
    /\ UNCHANGED <<currentRpcIndex, calls, obs, rpc, scn, tally, hel, iso, replayVars>>

\* route.ts:311-316: the delay between two wallets is over.
PostNextWallet ==
    /\ post.route = "rpc" /\ post.pc = "delay"
    /\ scn' \in NextScenarios
    /\ wal' = IdleWallet
    /\ tally' = NoTally
    /\ post' = [post EXCEPT !.pc = "analyzing", !.wallet = Items[post.i + 1]]
    /\ UNCHANGED <<currentRpcIndex, calls, obs, rpc, hel, iso, replayVars>>

\* The fetch of getSolPrice is over.
PriceRespond ==
    /\ post.price.pc = "fetching"
    /\ \E outcome \in PriceOutcomes :
         post' = [post EXCEPT !.price = EndPrice(post.price, outcome)]
    /\ UNCHANGED <<currentRpcIndex, calls, obs, rpc, scn, wal, tally, hel, iso, replayVars>>

\* route.ts:320-332 and 531-545: results and price are there.
PostRespond ==
    /\ post.pc = "await_price"
    /\ post.price.pc = "done"
    /\ post' = [post EXCEPT !.pc = "responded",
                            !.response = OkResponse(post.results, post.price.value)]
    /\ UNCHANGED <<currentRpcIndex, calls, obs, rpc, scn, wal, tally, hel, iso, replayVars>>

\* The fetch of the analysis of wallet k is over; when it was the last of
\* its chunk, processWalletsParallel pushes the flows of the chunk and waits
\* before the next chunk, or returns.
HelRespond(k) ==
    /\ post.route = "helius" /\ hel.pc = "chunk"
    /\ hel.runs[k].pc = "fetch"
    /\ \E answer \in (IF post.events > 0 THEN HeliusAnswers ELSE {PlainAnswer}) :
         LET run == [AnalyzeWalletHelius(hel.runs[k], Items[k], answer)
                        EXCEPT !.met = answer.kind, !.txs = Len(answer.txs)]
             h1 == [hel EXCEPT !.runs[k] = run,
                               !.order = IF run.pc = "done" THEN Append(@, k) ELSE @]
             resolved == \A j \in 1..Len(Items) : h1.runs[j].pc \in {"idle", "done"}
             h2 == IF resolved THEN ChunkPush(h1, Items) ELSE h1
         IN  /\ hel' = h2
             /\ post' = [post EXCEPT !.events = @ - Bit(answer # PlainAnswer),
                                     !.results = IF h2.pc = "returned" THEN h2.results ELSE @,
                                     !.pc = IF h2.pc = "returned" THEN "await_price" ELSE @]
    /\ UNCHANGED <<currentRpcIndex, calls, obs, rpc, scn, wal, tally, iso, replayVars>>

\* route.ts:403-404: the wait after a 429 is over, the analysis calls itself.
HelRetry(k) ==
    /\ post.route = "helius" /\ hel.pc = "chunk"
    /\ hel.runs[k].pc = "wait"
    /\ hel' = [hel EXCEPT !.runs[k] = [@ EXCEPT !.pc = "fetch", !.retryCount = @ + 1,
                                                !.wait = 0]]
    /\ UNCHANGED <<currentRpcIndex, calls, obs, rpc, scn, wal, tally, post, iso, replayVars>>

\* route.ts:495-504: the delay between two chunks is over.
HelNextChunk ==
    /\ post.route = "helius" /\ hel.pc = "batch_delay"
    /\ hel' = StartChunk(hel, Items, hel.i + PARALLEL_WALLETS)
    /\ UNCHANGED <<currentRpcIndex, calls, obs, rpc, scn, wal, tally, post, iso, replayVars>>

NextService ==
    \/ PostReceive
    \/ NextWallet
    \/ PostCollect
    \/ PostNextWallet
    \/ PriceRespond
    \/ PostRespond
    \/ \E k \in 1..MaxWallets : k <= Len(hel.runs) /\ HelRespond(k)
    \/ \E k \in 1..MaxWallets : k <= Len(hel.runs) /\ HelRetry(k)
    \/ HelNextChunk

SpecService == InitService /\ [][NextService]_vars

----------------------------------------------------------------------------
(* Properties of the service *)

\* Every WalletFlow an analysis has returned so far, on either route.
ReturnedFlows ==
    {post.results[k] : k \in 1..Len(post.results)}
    \cup {hel.runs[k].flow : k \in {j \in 1..Len(hel.runs) : hel.runs[j].pc = "done"}}
    \cup (IF wal.pc = "done" THEN {wal.flow} ELSE {})

Responded(status) == post.pc = "responded" /\ post.response.status = status

\* C13: a WalletFlow that carries an error has all four numeric fields 0 and
\* both times null, whatever the analysis had accumulated before it failed.
C13_ErrorMeansBare == \A f \in ReturnedFlows : f.error # None => BareError(f)

\* On the RPC route the second detail call of a wallet threw after the first
\* had been counted, and the response carries the bare error flow.
C13_Witness ==
    /\ post.route = "rpc" /\ Responded(200)
    /\ tally.detailThrew /\ wal.processed >= 1
    /\ post.response.results[Len(Items)].error # None
    /\ BareError(post.response.results[Len(Items)])

\* C14: every WalletFlow returned has netFlow = totalInflow - totalOutflow,
\* with neither total negative (amounts in lamports).
C14_NetIsInflowMinusOutflow ==
    \A f \in ReturnedFlows :
        /\ f.netFlow = f.totalInflow - f.totalOutflow
        /\ f.totalInflow >= 0
        /\ f.totalOutflow >= 0

\* A response holds a flow with both an inflow and a larger outflow.
C14_Witness ==
    /\ Responded(200)
    /\ \E k \in 1..Len(post.response.results) :
         LET f == post.response.results[k] IN
         /\ f.totalInflow > 0
         /\ f.totalOutflow > f.totalInflow
         /\ f.netFlow < 0

\* C15: a wallet whose history fetch succeeds with no reference gets the
\* flow of zeros with null times and no error, without any detail call; a
\* fetch that failed always gives a flow with an error.
C15_EmptyHistoryIsNotAnError ==
    /\ (wal.pc = "done" /\ HistoryReturned /\ SigCount(wal.sigs) = 0)
          => (wal.flow = EmptyFlow(WalletAddress) /\ tally.detailCalls = 0)
    /\ (wal.pc = "done" /\ tally.histFailed) => wal.flow.error # None
    /\ \A k \in 1..Len(hel.runs) :
          LET run == hel.runs[k] IN
          run.pc = "done" =>
             /\ (run.met = "ok" /\ run.txs = 0) => run.flow = EmptyFlow(Items[k])
             /\ run.met # "ok" => run.flow.error # None

\* On the RPC route the first wallet of the batch failed in its history
\* fetch and the second has just been found to have no history.
C15_Witness ==
    /\ post.route = "rpc" /\ post.pc = "analyzing"
    /\ post.i = 1
    /\ post.results[1].error # None
    /\ wal.pc = "done" /\ HistoryReturned
    /\ tally.pages >= 1 /\ SigCount(wal.sigs) = 0
    /\ wal.flow = EmptyFlow(Items[2])

RECURSIVE SumOver(_, _, _)
SumOver(S, results, f) ==
    IF S = {} THEN 0
    ELSE LET k == CHOOSE x \in S : TRUE IN results[k][f] + SumOver(S \ {k}, results, f)

\* C16: in a successful response totalWallets is the length of results,
\* every total is the sum of the field over the results without error (those
\* with an error add nothing), and errors is the number of results with an
\* error.
C16_AggregateIsSumOfResults ==
    Responded(200) =>
        LET results == post.response.results
            agg == post.response.aggregate
            good == {k \in 1..Len(results) : results[k].error = None}
        IN  /\ agg.totalWallets = Len(results)
            /\ agg.totalInflow = SumOver(good, results, "totalInflow")
            /\ agg.totalOutflow = SumOver(good, results, "totalOutflow")
            /\ agg.netFlow = SumOver(good, results, "netFlow")
            /\ agg.totalTransactions = SumOver(good, results, "transactionCount")
            /\ agg.errors = Len(results) - Cardinality(good)

\* A response for three wallets, one of them failed, the others with
\* transactions.
C16_Witness ==
    /\ Responded(200)
    /\ post.response.aggregate.totalWallets = 3
    /\ post.response.aggregate.errors = 1
    /\ post.response.aggregate.totalTransactions >= 2
    /\ post.response.aggregate.totalInflow > 0

\* C18: a successful response has one WalletFlow per input address, in the
\* order of the input.
C18_ResultsInInputOrder ==
    Responded(200) =>
        /\ Len(post.response.results) = Len(Items)
        /\ \A k \in 1..Len(Items) : post.response.results[k].address = Items[k]

\* On the Helius route the second wallet of a chunk completed before the
\* first, which was retried and failed.
C18_Witness ==
    /\ post.route = "helius" /\ Responded(200)
    /\ Len(Items) = 3
    /\ hel.order[1] = 2
    /\ hel.runs[1].retryCount >= 1
    /\ post.response.results[1].error # None

\* The analyses of processWalletsParallel that are under way.
InFlight == {k \in 1..Len(hel.runs) : hel.runs[k].pc \in {"fetch", "wait"}}

\* The first position of the chunk of position k.
ChunkStart(k) == ((k - 1) \div PARALLEL_WALLETS) * PARALLEL_WALLETS

\* C19: at most PARALLEL_WALLETS analyses of the batch are under way at any
\* time, a wait after a 429 included, and an analysis has started only when
\* every wallet of the chunks before its own has its flow.
C19_BoundedFanOut ==
    /\ Cardinality(InFlight) <= PARALLEL_WALLETS
    /\ \A k \in 1..Len(hel.runs) :
          hel.runs[k].pc # "idle" =>
             \A j \in 1..ChunkStart(k) :
                /\ hel.runs[j].pc = "done"
                /\ j <= Len(hel.results)

\* One wallet of the first chunk waits after a 429, the other is fetching,
\* and the third wallet has not started.
C19_Witness ==
    /\ Len(hel.runs) = 3
    /\ hel.runs[1].pc = "wait"
    /\ hel.runs[2].pc = "fetch"
    /\ hel.runs[3].pc = "idle"

\* No network call has been issued for the request: no price lookup, no RPC
\* call, no Helius call.
NoNetworkCall ==
    /\ post.price.pc = "idle"
    /\ wal.pc = "out"
    /\ \A c \in CallIds : calls[c] = IdleCall
    /\ hel = IdleHel

Rejectable ==
    \/ post.body.kind # "array"
    \/ Len(Items) = 0
    \/ Len(Items) > MAX_WALLETS

\* C20: a request whose wallets is missing, not an array, empty or longer
\* than MAX_WALLETS is answered 400, and no network call is issued for it.
C20_RejectedBeforeAnyCall ==
    (post.pc # "idle" /\ Rejectable) =>
        /\ NoNetworkCall
        /\ post.pc \in {"received", "responded"}
        /\ post.pc = "responded" => post.response.status = 400

\* A batch of MAX_WALLETS + 1 addresses has been answered 400.
C20_Witness ==
    /\ Len(Items) = MAX_WALLETS + 1
    /\ Responded(400)
    /\ NoNetworkCall

MalformedCap == post.body.kind = "array" /\ post.body.maxTransactions \in MalformedCaps

\* C21: a request whose maxTransactions is zero, negative or not a number is
\* answered 400 before any work, and gives no batch result.
C21_MalformedCapRejected ==
    (post.pc # "idle" /\ MalformedCap) =>
        /\ NoNetworkCall
        /\ post.pc \in {"received", "responded"}
        /\ post.pc = "responded" => post.response.status = 400

\* What the RPC route does with such a cap: when the list itself is
\* accepted it answers 200, having issued no RPC call, with the flow of an
\* empty history for every wallet.
MalformedCapGivesEmptyFlows ==
    (post.route = "rpc" /\ MalformedCap) =>
        /\ \A c \in CallIds : calls[c] = IdleCall
        /\ (post.pc = "responded" /\ Validate(post.body).ok) =>
              /\ post.response.status = 200
              /\ \A k \in 1..Len(Items) : post.response.results[k] = EmptyFlow(Items[k])

Accepted == post.pc # "idle" /\ Validate(post.body).ok

\* C22: an accepted batch issues one price lookup, and whatever the lookup
\* meets the batch is answered 200 with the flows the analyses returned and
\* their aggregate; solPrice is the price the lookup returned, which is 0
\* when the lookup failed (a status that is not ok, a thrown fetch, a body
\* without a quote).
C22_PriceIsBestEffort ==
    /\ [](/\ post.price.lookups <= 1
          /\ (Accepted /\ post.pc # "received") => post.price.lookups = 1
          /\ (Accepted /\ post.pc = "responded") =>
                /\ post.price.pc = "done"
                /\ post.response.status = 200
                /\ post.response.results = post.results
                /\ Len(post.response.results) = Len(Items)
                /\ post.response.aggregate.totalWallets = Len(Items)
                /\ post.response.aggregate.netFlow
                      = SumOver(1..Len(post.results), post.results, "netFlow")
                /\ post.response.solPrice = post.price.value)
    /\ [][\A outcome \in PriceOutcomes :
            (post.price.pc = "fetching" /\ post'.price = EndPrice(post.price, outcome))
            => (/\ post'.price.value = (IF outcome = "quoted" THEN PriceUsd ELSE 0)
                /\ post'.results = post.results
                /\ post'.pc = post.pc
                /\ <<wal, hel, calls>>' = <<wal, hel, calls>>)]_vars

\* The lookup failed while the batch was analysed, and the response still
\* carries the flow of a wallet with transactions, with solPrice 0.
C22_Witness ==
    /\ Responded(200)
    /\ post.price.value = 0
    /\ post.response.solPrice = 0
    /\ \E k \in 1..Len(post.response.results) :
          /\ post.response.results[k].error = None
          /\ post.response.results[k].transactionCount >= 1

\* The rpcCall of the wallet is in the frame getSignatures or getTransaction
\* called: it has neither rotated nor backed off.
FirstAttempt(call) == call.retryCount = 0 /\ call.endpointsTried = 1

\* C33: on the RPC route every page request and every detail request of the
\* batch makes its first attempt on the endpoint of the request (rpcUrl,
\* SOLANA_RPC_URL or the default), wherever earlier calls of the batch have
\* left the rotation.
C33_RotationIsNotSticky ==
    /\ []((post.route = "rpc" /\ post.pc \in {"analyzing", "delay"})
            => /\ rpc = ChooseRpc(post.body.rpcUrl, post.env)
               /\ (wal.pc \in {"sigs", "txs"} /\ FirstAttempt(WalletCall))
                    => WalletCall.url = rpc)
    /\ [][(/\ post.route = "rpc"
           /\ \/ tally'.pageRequests = tally.pageRequests + 1
              \/ tally'.detailCalls = tally.detailCalls + 1)
          => (/\ calls'[Observed].pc = "fetch"
              /\ FirstAttempt(calls'[Observed])
              /\ calls'[Observed].url = ChooseRpc(post.body.rpcUrl, post.env))]_vars

\* The first wallet of the batch was analyzed without error although one
\* of its calls had to rotate away from the default endpoint (the index
\* stands at 1); the first page request of the second wallet is on the
\* default endpoint again.
C33_Witness ==
    /\ post.route = "rpc" /\ post.pc = "analyzing"
    /\ post.i = 1
    /\ post.results[1].error = None
    /\ currentRpcIndex = 1
    /\ rpc = DEFAULT_RPC
    /\ wal.pc = "sigs"
    /\ tally.pageRequests = 1
    /\ WalletCall = NewCall(DEFAULT_RPC)

----------------------------------------------------------------------------
(* Specification of the Helius route under rate limiting: a request of one *)
(* or more wallets whose fetches can be answered 429 often enough for a    *)
(* wallet to use up its retries, from the arrival of the request to the    *)
(* return of processWalletsParallel (the price lookup, which runs beside   *)
(* it, is left pending).                                                    *)

\* Answers that are not the plain one: enough for a wallet to use up its
\* retries.
RateLimitEvents == HELIUS_RETRIES + 1

InitRateLimited ==
    /\ currentRpcIndex = 0
    /\ calls = [c \in CallIds |-> IdleCall]
    /\ obs = NoObs
    /\ rpc = DEFAULT_RPC
    /\ scn = QuietScenario
    /\ wal = [IdleWallet EXCEPT !.pc = "out"]
    /\ tally = NoTally
    /\ \E n \in 1..MaxWallets :
         post = Request("helius", Body("array", Batch(n), None, Absent), None, RateLimitEvents)
    /\ hel = IdleHel
    /\ iso = IdleIso
    /\ net = IdleNet
    /\ twice = IdleTwice
    /\ fold = IdleFold

NextRateLimited ==
    \/ PostReceive
    \/ \E k \in 1..MaxWallets : k <= Len(hel.runs) /\ HelRespond(k)
    \/ \E k \in 1..MaxWallets : k <= Len(hel.runs) /\ HelRetry(k)
    \/ HelNextChunk

SpecRateLimited == InitRateLimited /\ [][NextRateLimited]_vars

RateLimited == HeliusAnswer("status", 429, <<>>)

\* C31: analyzeWalletHelius retries a 429 at most HELIUS_RETRIES times,
\* waiting 1000 * (n + 1) ms before retry n + 1; the 429 that follows the
\* last retry gives the error flow 'Rate limited', and a retry that is
\* answered with a list of transactions gives a flow without error.
C31_HeliusRetriesRateLimit ==
    /\ [](\A k \in 1..Len(hel.runs) :
            LET run == hel.runs[k] IN
            /\ run.retryCount <= HELIUS_RETRIES
            /\ run.pc = "wait"
                  => (/\ run.retryCount < HELIUS_RETRIES
                      /\ run.wait = 1000 * (run.retryCount + 1))
            /\ (run.pc = "done" /\ run.flow.error = "Rate limited")
                  => run.retryCount = HELIUS_RETRIES
            /\ (run.pc = "done" /\ run.met = "ok") => run.flow.error = None)
    /\ [][\A k \in 1..Len(hel.runs) :
            LET run == hel.runs[k] IN
            /\ (/\ run.pc = "fetch"
                /\ Len(hel'.runs) = Len(hel.runs)
                /\ hel'.runs[k] = [AnalyzeWalletHelius(run, Items[k], RateLimited)
                                      EXCEPT !.met = "status"])
               => IF run.retryCount < 3
                  THEN hel'.runs[k].pc = "wait"
                  ELSE /\ hel'.runs[k].pc = "done"
                       /\ hel'.runs[k].flow = ErrorFlow(Items[k], "Rate limited")
            /\ (/\ run.pc = "wait"
                /\ Len(hel'.runs) = Len(hel.runs)
                /\ hel'.runs[k] # run)
               => (/\ hel'.runs[k].pc = "fetch"
                   /\ hel'.runs[k].retryCount = run.retryCount + 1)]_vars

\* A wallet was answered 429 four times in a row, after waits of 1 s, 2 s
\* and 3 s, and carries 'Rate limited'; the wallet next to it was answered
\* with a transaction at once and carries no error.
C31_Witness ==
    /\ Len(hel.runs) >= 2
    /\ hel.runs[1].pc = "done"
    /\ hel.runs[1].retryCount = HELIUS_RETRIES
    /\ hel.runs[1].flow.error = "Rate limited"
    /\ hel.runs[2].pc = "done"
    /\ hel.runs[2].retryCount = 0
    /\ hel.runs[2].met = "ok"
    /\ hel.runs[2].flow.error = None
    /\ hel.runs[2].flow.transactionCount = 1

----------------------------------------------------------------------------
(* Specification of the admission: the body of a request arrives, with a   *)
(* list of a size on either side of the limits the repository names, and   *)
(* POST runs up to its first await.                                         *)

README_MAX_WALLETS == 10   \* "up to 10 wallets at once"

\* The sizes around the limit of the README and the limit of the code.
AdmissionSizes ==
    {0, 1, README_MAX_WALLETS, README_MAX_WALLETS + 1, MAX_WALLETS, MAX_WALLETS + 1}

\* A list of n addresses.
Crowd(n) == [k \in 1..n |-> AddressNames[1]]

AdmissionBodies ==
    {Body("array", Crowd(n), u, m) :
        n \in AdmissionSizes, u \in {None, PUBLIC_RPC_ENDPOINTS[2]}, m \in {Absent, Num(1)}}
    \cup {Body(k, <<>>, None, Absent) : k \in {"missing", "notArray"}}

AdmissionRequests ==
    {Request("rpc", b, e, BatchEvents) : b \in AdmissionBodies, e \in {None, CustomUrl}}
    \cup {Request("helius", b, None, BatchEvents) :
              b \in {x \in AdmissionBodies : x.rpcUrl = None}}

InitAdmission ==
    /\ currentRpcIndex = 0
    /\ calls = [c \in CallIds |-> IdleCall]
    /\ obs = NoObs
    /\ rpc = DEFAULT_RPC
    /\ scn = QuietScenario
    /\ wal = [IdleWallet EXCEPT !.pc = "out"]
    /\ tally = NoTally
    /\ post \in {q \in AdmissionRequests : q.body.rpcUrl = None \/ q.env = None}
    /\ hel = IdleHel
    /\ iso = IdleIso
    /\ net = IdleNet
    /\ twice = IdleTwice
    /\ fold = IdleFold

NextAdmission == PostReceive \/ PriceRespond

SpecAdmission == InitAdmission /\ [][NextAdmission]_vars

\* C24: a request with more than 10 wallet addresses is answered 400 and no
\* wallet is analyzed: no price lookup, no RPC call and no Helius call is
\* issued for it.
C24_AtMostTenWallets ==
    (post.pc # "received" /\ post.body.kind = "array" /\ Len(Items) > README_MAX_WALLETS) =>
        /\ Responded(400)
        /\ NoNetworkCall

\* What the code does with the lists the README rules out: up to
\* MAX_WALLETS addresses they are accepted on both routes.
AcceptedUpToCodeLimit ==
    (post.pc # "received" /\ post.body.kind = "array"
        /\ Len(Items) > README_MAX_WALLETS /\ Len(Items) <= MAX_WALLETS) =>
        /\ post.pc = IF post.route = "rpc" THEN "analyzing" ELSE "processing"
        /\ post.price.lookups = 1

----------------------------------------------------------------------------
(* Specification of the fold: the body of the loop of analyzeWallet applied *)
(* to a list of detail payloads and to a permutation of it.                 *)

InitFold ==
    /\ currentRpcIndex = 0
    /\ calls = [c \in CallIds |-> IdleCall]
    /\ obs = NoObs
    /\ rpc = DEFAULT_RPC
    /\ scn = QuietScenario
    /\ wal = IdleWallet
    /\ tally = NoTally
    /\ post = IdlePost
    /\ hel = IdleHel
    /\ iso = IdleIso
    /\ net = IdleNet
    /\ twice = IdleTwice
    /\ \E txs \in PayloadLists(FoldLen) : \E perm \in Orders(Len(txs)) :
         fold = FoldOf(txs, perm)

\* route.ts:225-255: one more payload is folded.
FoldApply ==
    /\ fold.pc = "loop" /\ fold.k < Len(fold.txs)
    /\ fold' = [fold EXCEPT
                  !.k = @ + 1,
                  !.a = AfterDetail(@, GetTransaction(fold.txs[fold.k + 1])),
                  !.b = AfterDetail(@, GetTransaction(fold.txs[fold.perm[fold.k + 1]]))]
    /\ UNCHANGED <<currentRpcIndex, calls, obs, rpc, scn, wal, tally, post, hel, iso, net, twice>>

\* route.ts:258-269: the loop is over, the flow is built.
FoldReturn ==
    /\ fold.pc = "loop" /\ fold.k = Len(fold.txs)
    /\ fold' = [fold EXCEPT !.pc = "done",
                            !.a = Finish(@, WalletAddress),
                            !.b = Finish(@, WalletAddress)]
    /\ UNCHANGED <<currentRpcIndex, calls, obs, rpc, scn, wal, tally, post, hel, iso, net, twice>>

NextFold == FoldApply \/ FoldReturn

SpecFold == InitFold /\ [][NextFold]_vars

\* The payloads of txs that carry a balance delta of the wallet.
DeltaAt(S) == {j \in S : fold.txs[j].kind = "delta"}

RECURSIVE SumDiff(_)
SumDiff(S) ==
    IF S = {} THEN 0
    ELSE LET j == CHOOSE x \in S : TRUE IN fold.txs[j].diff + SumDiff(S \ {j})

FoldTotals(flow) ==
    <<flow.totalInflow, flow.totalOutflow, flow.netFlow, flow.transactionCount>>

\* C30: totalInflow is the sum of the positive deltas, totalOutflow the sum
\* of the negative deltas with the sign dropped, netFlow the sum of the
\* deltas with their sign, and the four totals are the same for the list
\* taken in any other order.
C30_FoldIsCommutative ==
    fold.pc = "done" =>
        LET all == DeltaAt(1..Len(fold.txs))
            up == {j \in all : fold.txs[j].diff > 0}
            down == {j \in all : fold.txs[j].diff < 0}
        IN  /\ fold.a.flow.totalInflow = SumDiff(up)
            /\ fold.a.flow.totalOutflow = 0 - SumDiff(down)
            /\ fold.a.flow.netFlow = SumDiff(all)
            /\ fold.a.flow.transactionCount
                  = Cardinality({j \in 1..Len(fold.txs) :
                                   fold.txs[j].kind \in {"absent", "delta"}})
            /\ FoldTotals(fold.a.flow) = FoldTotals(fold.b.flow)

\* An inflow, a larger outflow and a payload without meta, folded in two
\* different orders.
C30_Witness ==
    /\ fold.pc = "done"
    /\ Len(fold.txs) = FoldLen
    /\ fold.perm # [j \in 1..FoldLen |-> j]
    /\ fold.a.flow.totalInflow = 1
    /\ fold.a.flow.totalOutflow = 2
    /\ fold.a.flow.transactionCount = 2
    /\ fold.b.flow.netFlow = 0 - 1

----------------------------------------------------------------------------
(* Specification of the repeated request: the same list of wallets is      *)
(* analyzed twice, one request after the other, in a process that starts   *)
(* with currentRpcIndex = 0.  Every endpoint answers every fetch the same  *)
(* way, every wallet has the same history and every 200 carries the same   *)
(* payload, in the first request and in the second.                        *)

InitTwice ==
    /\ currentRpcIndex = 0
    /\ calls = [c \in CallIds |-> IdleCall]
    /\ obs = NoObs
    /\ rpc = DEFAULT_RPC
    /\ scn = QuietScenario
    /\ wal = IdleWallet
    /\ tally = NoTally
    /\ post = IdlePost
    /\ hel = IdleHel
    /\ iso = IdleIso
    /\ fold = IdleFold
    /\ net \in Worlds
    /\ \E list \in TwiceLists, u \in Urls, h \in 0..IsoHist, payload \in DetailPayloads :
         twice = TwiceOf(list, u, h, payload)

TwiceRunning == twice.pass \in {1, 2}
TwiceOver == twice.run.w.pc = "collected" /\ twice.run.i = Len(twice.list)
TwiceWaiting == twice.run.w.pc \in {"sigs", "txs"} /\ twice.run.c.pc = "fetch"

\* The fetch of the request settles with what its endpoint always answers.
TwiceRespond ==
    /\ TwiceRunning /\ ~TwiceOver /\ TwiceWaiting
    /\ twice' = [twice EXCEPT
                   !.run = RunRespond(@, IsoInput(net[twice.run.c.url], twice.payload),
                                      twice.rpc, twice.hist, IsoCap,
                                      twice.list[twice.run.i + 1])]
    /\ UNCHANGED <<currentRpcIndex, calls, obs, rpc, scn, wal, tally, post, hel, iso, net, fold>>

\* A delay of the request is over.
TwiceTick ==
    /\ TwiceRunning /\ ~TwiceOver /\ ~TwiceWaiting
    /\ twice' = [twice EXCEPT !.run = RunTick(@, twice.rpc)]
    /\ UNCHANGED <<currentRpcIndex, calls, obs, rpc, scn, wal, tally, post, hel, iso, net, fold>>

\* The first request is answered and the second arrives: its locals are
\* new, currentRpcIndex (route.ts:15) is the module's.
TwiceAgain ==
    /\ twice.pass = 1 /\ TwiceOver
    /\ twice' = [twice EXCEPT !.pass = 2, !.first = twice.run.results,
                              !.mid = twice.run.idx, !.run = IsoRun(twice.run.idx)]
    /\ UNCHANGED <<currentRpcIndex, calls, obs, rpc, scn, wal, tally, post, hel, iso, net, fold>>

\* The second request is answered.
TwiceEnd ==
    /\ twice.pass = 2 /\ TwiceOver
    /\ twice' = [twice EXCEPT !.pass = 3]
    /\ UNCHANGED <<currentRpcIndex, calls, obs, rpc, scn, wal, tally, post, hel, iso, net, fold>>

NextTwice == TwiceRespond \/ TwiceTick \/ TwiceAgain \/ TwiceEnd

SpecTwice == InitTwice /\ [][NextTwice]_vars

\* C23: the second run of the pipeline over the same wallet list, the same
\* histories and the same endpoint behaviour yields the WalletFlow values of
\* the first, whatever currentRpcIndex the first run left.
C23_SecondRunSameFlows ==
    twice.pass = 3 => twice.run.results = twice.first

\* On an endpoint outside the pool the index is never read to a purpose,
\* and the two runs agree.
SameFlowsOffPool ==
    (twice.pass = 3 /\ twice.rpc \notin PoolUrls) => twice.run.results = twice.first

\* The two runs agree as well when the first left the index where it
\* found it.
SameFlowsWhenIndexRestored ==
    (twice.pass = 3 /\ twice.mid = 0) => twice.run.results = twice.first

----------------------------------------------------------------------------
(* Specification of the two executions *)

ListOf(side) == IF side = "with" THEN iso.list ELSE Without(iso.list, BadWallet)

RunOver(side) == iso[side].w.pc = "collected" /\ iso[side].i = Len(ListOf(side))

\* The wallet the execution is at, or comes to next.
Cur(side) == IF RunOver(side) THEN None ELSE ListOf(side)[iso[side].i + 1]

RunWaiting(side) == iso[side].w.pc \in {"sigs", "txs"} /\ iso[side].c.pc = "fetch"

\* The two executions stand at the same point of the same wallet.
Aligned ==
    /\ ~RunOver("with") /\ ~RunOver("without")
    /\ Cur("with") = Cur("without")
    /\ \/ iso.with.w.pc = "collected" /\ iso.without.w.pc = "collected"
       \/ iso.with.w = iso.without.w /\ iso.with.c = iso.without.c

\* An execution moves alone: the one with the failing wallet while it is at
\* that wallet, and once the two have parted first the one, then the other
\* (they are separate executions, their order is of no account).
Alone(side) ==
    /\ ~Aligned
    /\ ~RunOver(side)
    /\ side = "without" => RunOver("with")

InitIsolation ==
    /\ currentRpcIndex = 0
    /\ calls = [c \in CallIds |-> IdleCall]
    /\ obs = NoObs
    /\ rpc = DEFAULT_RPC
    /\ scn = QuietScenario
    /\ wal = IdleWallet
    /\ tally = NoTally
    /\ post = IdlePost
    /\ hel = IdleHel
    /\ net = IdleNet
    /\ twice = IdleTwice
    /\ fold = IdleFold
    /\ \E list \in IsoLists, u \in Urls, h \in 0..IsoHist,
          idx \in 0..(Len(PUBLIC_RPC_ENDPOINTS) - 1) :
         iso = [list |-> list, rpc |-> u, hist |-> h,
                with |-> IsoRun(idx), without |-> IsoRun(idx)]

\* The same answer reaches the same fetch of both executions.
IsoJointRespond ==
    /\ Aligned /\ RunWaiting("with")
    /\ \E x \in IsoInputs :
         iso' = [iso EXCEPT
                   !.with = RunRespond(@, x, iso.rpc, iso.hist, IsoCap, Cur("with")),
                   !.without = RunRespond(@, x, iso.rpc, iso.hist, IsoCap, Cur("without"))]
    /\ UNCHANGED <<currentRpcIndex, calls, obs, rpc, scn, wal, tally, post, hel, replayVars>>

IsoJointTick ==
    /\ Aligned /\ ~RunWaiting("with")
    /\ iso' = [iso EXCEPT !.with = RunTick(@, iso.rpc), !.without = RunTick(@, iso.rpc)]
    /\ UNCHANGED <<currentRpcIndex, calls, obs, rpc, scn, wal, tally, post, hel, replayVars>>

IsoRespond(side) ==
    /\ Alone(side) /\ RunWaiting(side)
    /\ \E x \in (IF Cur(side) = BadWallet THEN IsoBadInputs ELSE IsoInputs) :
         iso' = [iso EXCEPT ![side] = RunRespond(@, x, iso.rpc, iso.hist, IsoCap, Cur(side))]
    /\ UNCHANGED <<currentRpcIndex, calls, obs, rpc, scn, wal, tally, post, hel, replayVars>>

IsoTick(side) ==
    /\ Alone(side) /\ ~RunWaiting(side)
    /\ iso' = [iso EXCEPT ![side] = RunTick(@, iso.rpc)]
    /\ UNCHANGED <<currentRpcIndex, calls, obs, rpc, scn, wal, tally, post, hel, replayVars>>

NextIsolation ==
    \/ IsoJointRespond
    \/ IsoJointTick
    \/ \E side \in {"with", "without"} : IsoRespond(side)
    \/ \E side \in {"with", "without"} : IsoTick(side)

SpecIsolation == InitIsolation /\ [][NextIsolation]_vars

\* The position in the list with the failing wallet of the k-th wallet of
\* the list without it.
PosWith(k) == IF \E j \in 1..k : iso.list[j] = BadWallet THEN k + 1 ELSE k

ErrorCount(results) == Cardinality({k \in 1..Len(results) : results[k].error # None})

BothOver == iso.list # <<>> /\ RunOver("with") /\ RunOver("without")

\* C17: when a wallet of the batch fails for good, the flow of every other
\* wallet is the one it has in the batch without the failing wallet (the
\* answers to its own calls being the same), and the failing wallet's entry
\* is the only error added.
C17_SiblingsUnaffected ==
    BothOver =>
        /\ Len(iso.with.results) = Len(iso.list)
        /\ \A k \in 1..Len(iso.without.results) :
              iso.with.results[PosWith(k)] = iso.without.results[k]
        /\ ErrorCount(iso.with.results) = ErrorCount(iso.without.results) + 1

\* On an endpoint outside the pool, where rpcCall never touches
\* currentRpcIndex, the other wallets are unaffected.
SiblingsUnaffectedOffPool == iso.rpc = CustomUrl => C17_SiblingsUnaffected

====
